---- MODULE Spec2Model ----
(***************************************************************************)
(* Hadron: reconciliation of remote Docker hosts over pooled SSH           *)
(* connections.                                                            *)
(*                                                                         *)
(* Spec      one run of executor.execute (sdk executor) against the live   *)
(*           state of the remote hosts.  Every remote command is issued    *)
(*           (Issue) and later returns (the ...Done actions), so a state   *)
(*           in which a command is in flight is observable.                *)
(* SpecTwice the same for plans with and without tmpfs mounts, followed   *)
(*           by further runs of Plan.Execute on the same Plan (Rerun).     *)
(* SpecPool  goroutines racing through ssh.Pool.GetClientWithFingerprint.  *)
(* SpecPoolClose, SpecLabels, SpecUpload, SpecHash, SpecSensitivity,       *)
(* SpecMounts, SpecWait, SpecPackages: the pool's CloseAll, the label      *)
(* round trip, content-addressed uploads, Container.ConfigHash, the        *)
(* readiness wait and the Debian package steps, each on its own variable.  *)
(* SpecDryRun, SpecDestroy, SpecCancel: Spec with Plan.DryRun, Plan.Destroy*)
(* and the cancellation of the plan's context.                             *)
(* SpecFirewallBuilder, SpecDaemon, SpecAgent, SpecForeign, SpecFirewall:  *)
(* the FirewallBuilder of a host, deployHostDockerDaemon within a run, the *)
(* pool's SSH agent sockets, a run against hosts holding resources the     *)
(* plan did not create, and deployHostFirewall.                            *)
(***************************************************************************)
EXTENDS Integers, Sequences, FiniteSets, TLC

(***************************************************************************)
(* Bounds of the model.                                                    *)
(***************************************************************************)
\* remote commands that may fail (transport or command error) in a behaviour
MaxFaults == 1
\* longest timeout given to WaitForDockerReady, in check intervals
MaxTimeout == 3
\* longest time one `docker info` probe takes, in check intervals
MaxProbeTime == 1
\* calls of EnsureInstalled and EnsureRemoved in SpecPackages
MaxEnsureCalls == 3
\* client objects created by the pool in SpecAgent
MaxClients == 3
\* calls of HostBuilder.Firewall on one host builder
MaxBuilders == 2
\* longest rule list of a FirewallConfig
MaxRules == 3
\* runs of Plan.Execute in SpecTwice
MaxRuns == 2
\* goroutines racing on the pool in SpecPool
NumGoroutines == 2
\* GetClient calls each goroutine makes in SpecPool
MaxCalls == 2
\* Pool.CloseAll calls in SpecPoolClose
MaxCloses == 3
\* characters of a plan name; hex digits standing for the 64 of a digest
MaxLen == 2
\* uploads to the one host of SpecUpload
MaxUploads == 3
\* entries of each unordered collection of a container in SpecHash
MaxKeys == 2
\* ConfigHash calls on the containers of SpecHash
MaxHashCalls == 2

(***************************************************************************)
(* The Plan (sdk/plan.go Plan): hosts, networks, volumes and containers in *)
(* declaration order, which is the order of their Build() calls.           *)
(***************************************************************************)
PlanName == "plan"

Hosts == <<"h1", "h2">>

HostSet == {Hosts[i] : i \in 1..Len(Hosts)}

\* What the HostBuilder configured: h1 uses every optional phase, h2 none.
HostConf(h) ==
    IF h = "h1"
    THEN [packages |-> TRUE, hardenDocker |-> TRUE, firewall |-> TRUE, registries |-> TRUE]
    ELSE [packages |-> FALSE, hardenDocker |-> FALSE, firewall |-> FALSE, registries |-> FALSE]

Networks == << [name |-> "n1", host |-> "h1", driver |-> "bridge"] >>

Volumes == << [name |-> "v1", host |-> "h1", driver |-> "local"] >>

\* healthCheck: a HealthCheck is declared; mount: content of the one file
\* mount ("" when the container has none).
Containers ==
    << [name |-> "k0", host |-> "h2", image |-> "img", networkAlias |-> "k0",
        healthCheck |-> FALSE, mount |-> ""],
       [name |-> "k1", host |-> "h1", image |-> "img", networkAlias |-> "k1",
        healthCheck |-> TRUE, mount |-> "cfg"],
       [name |-> "k2", host |-> "h1", image |-> "img", networkAlias |-> "k2",
        healthCheck |-> FALSE, mount |-> ""] >>

ContainerNames == {Containers[i].name : i \in 1..Len(Containers)}

ContainerNamed(n) == Containers[CHOOSE i \in 1..Len(Containers) : Containers[i].name = n]

\* ContainerBuilder.DependsOn takes a built *Container, so the builder alone
\* yields edges to earlier containers only.
DependsOnBuilt == [k0 |-> {}, k1 |-> {"k0"}, k2 |-> {"k1"}]

\* Container.DependsOn() returns the internal slice: after
\* k1.DependsOn()[0] = k2 the plan holds the cycle k1 -> k2 -> k1.
DependsOnCyclic == [k0 |-> {}, k1 |-> {"k2"}, k2 |-> {"k1"}]

\* Network.ConfigHash / Volume.ConfigHash: SHA-256 of "name|driver|host",
\* modelled by the tuple it digests.
ConfigHash(r) == <<r.name, r.driver, r.host>>

\* the orders in which the entries of a collection can come
Orders(S) == {o \in [1..Cardinality(S) -> S] : \A i, j \in 1..Cardinality(S) : o[i] = o[j] => i = j}

Range(seq) == {seq[i] : i \in 1..Len(seq)}

\* Container.ConfigHash: SHA-256 over the joined configuration parts (name,
\* image, alias, mounts by content, ..., the tmpfs mounts in the order the
\* loop over the c.tmpfs map yields them), modelled by the tuple of the parts.
ContainerConfigHashIn(c, tmpfsOrder) == <<c.name, c.image, c.networkAlias, c.mount, tmpfsOrder>>

\* the containers of the plan have no tmpfs mounts
TmpfsNone == [n \in ContainerNames |-> <<>>]

\* the same plan with two tmpfs mounts on k2
TmpfsTwo == [TmpfsNone EXCEPT !["k2"] = <<"/run", "/tmp">>]

\* The hash a previous version of the resource was deployed with.
OldHash(r) == <<r.name, "previous">>

(***************************************************************************)
(* The phases of executor.execute, in the order the code runs them.        *)
(***************************************************************************)
PhaseOrderVolumesLast ==
    <<"packages", "daemon", "autoupdates", "firewall", "registries",
      "networks", "containers", "volumes">>

PhaseOrder ==
    <<"packages", "daemon", "autoupdates", "firewall", "registries",
      "networks", "volumes", "containers">>

HostPhases == {"packages", "daemon", "autoupdates", "firewall", "registries"}

ResourcePhases == {"networks", "volumes"}

PhaseIdx(ph) == CHOOSE i \in 1..Len(PhaseOrder) : PhaseOrder[i] = ph

\* the list a phase's loop ranges over
Items(ph) ==
    IF ph \in HostPhases THEN Hosts
    ELSE IF ph = "networks" THEN Networks
    ELSE IF ph = "volumes" THEN Volumes
    ELSE Containers

\* the host the handler at (ph, i) works on
HostAt(ph, i) == IF ph \in HostPhases THEN Hosts[i] ELSE Items(ph)[i].host

VARIABLES
    dependsOn,      \* Container.dependsOn of every container of the plan
    tmpfsIter,      \* container -> its tmpfs mounts, in the order the next loop over
                    \* the c.tmpfs map yields them
    pc,             \* position of the executor: phase, item, step, call/wait
    result,         \* "running", or what execute returned: "ok" / "error"
    run,            \* number of the current run of Plan.Execute
    clients,        \* Pool.clients: endpoint -> connection id (0: no entry)
    conns,          \* every connection ever established: [id, ep, fp, open]
    rRes,           \* remote networks and volumes: kind -> name -> labels
    rCtr,           \* remote containers: name -> labels, running, health
    fresh,          \* host -> its local copy of the image is the registry's
    files,          \* host -> content ids under /var/lib/hadron/files
    inflight,       \* remote operations issued and not yet returned
    faults,         \* failed remote commands so far
    mutations,      \* (ghost) mutating commands issued in this run
    hostPhases,     \* (ghost) host -> phases that issued a command to it
    completed,      \* (ghost) handlers (phase, item) that returned nil
    failedHost,     \* (ghost) host whose operation made execute fail
    depViol,        \* (ghost) <<a, b>>: run of a issued while b not ready
    rCtr0,          \* (ghost) remote containers when the run started
    labelReadFailed,\* (ghost) a tracking-label read failed in this run
    rRes0,          \* (ghost) remote networks and volumes when the run started
    events,         \* (ghost) <<phase, item, what>>: outcomes observed in this run
    mu,             \* Pool.mu: [w |-> writer or 0, r |-> set of readers]
    gpc,            \* goroutine -> position in GetClientWithFingerprint
    greq,           \* goroutine -> [ep, fp] of its current call
    gret,           \* goroutine -> connection id returned (0: none, -1: error)
    gcalls,         \* goroutine -> calls started
    requested,      \* (ghost) endpoints requested so far
    closeLog,       \* (ghost) CloseAll calls: consecutive, total, last return, last effect
    ser,            \* two containers that differ in one field, and what ConfigHash hashes for each
    mnt,            \* two containers mounting two local paths, the local disk, and what ConfigHash hashes
    ctx,            \* Plan.ctx: background or cancelled
    dryRun,         \* what a Plan.DryRun call returned and showed
    destroy,        \* what a Plan.Destroy call returned and removed
    wd,             \* one WaitForDockerReady call: clock, deadline, probes made, return value
    pkg,            \* the package step in progress and the packages of the host
    fwb,            \* the FirewallConfigs of a HostBuilder and the pointers to them
    dmn,            \* the daemon configuration of the host and the steps of deployHostDockerDaemon
    agt,            \* the pool's clients and the sockets they opened to the SSH agent
    ufw,            \* the ufw state of one host and the steps of deployHostFirewall
    lab,            \* a create command with its labels: built, executed, read back
    up,             \* uploads to one host: its files, the upload in progress, the results
    hsh             \* a container's logical fields and the results of its ConfigHash calls

execVars == <<dependsOn, tmpfsIter, pc, result, run>>

\* Container.ConfigHash as the next call computes it
ContainerConfigHash(c) == ContainerConfigHashIn(c, tmpfsIter[c.name])

\* every value a ConfigHash call on c can return
ContainerConfigHashes(c) ==
    {ContainerConfigHashIn(c, o) : o \in Orders(Range(tmpfsIter[c.name]))}

\* the ConfigHash call on container n returned; the next loop over its
\* tmpfs map takes any order
NextIteration(n) ==
    \E o \in Orders(Range(tmpfsIter[n])) : tmpfsIter' = [tmpfsIter EXCEPT ![n] = o]
poolVars == <<clients, conns>>
remoteVars == <<rRes, rCtr, fresh, files>>
ghostVars ==
    <<mutations, hostPhases, completed, failedHost, depViol, rCtr0, labelReadFailed,
      rRes0, events>>
\* state of the specifications of single functions
unitVars == <<ser, mnt, ctx, dryRun, destroy, wd, pkg, fwb, dmn, agt, ufw>>

pureVars == <<lab, up, hsh, unitVars>>

raceVars == <<mu, gpc, greq, gret, gcalls, requested, closeLog, pureVars>>

\* what the actions on one of the unitVars leave alone
SerOthers ==
    /\ UNCHANGED <<execVars, poolVars, remoteVars, inflight, faults, ghostVars>>
    /\ UNCHANGED <<mu, gpc, greq, gret, gcalls, requested, closeLog, lab, up, hsh>>
    /\ UNCHANGED <<mnt, ctx, dryRun, destroy, wd, pkg, fwb, dmn, agt, ufw>>

MntOthers ==
    /\ UNCHANGED <<execVars, poolVars, remoteVars, inflight, faults, ghostVars>>
    /\ UNCHANGED <<mu, gpc, greq, gret, gcalls, requested, closeLog, lab, up, hsh>>
    /\ UNCHANGED <<ser, ctx, dryRun, destroy, wd, pkg, fwb, dmn, agt, ufw>>

CtxOthers ==
    /\ UNCHANGED <<execVars, poolVars, remoteVars, inflight, faults, ghostVars>>
    /\ UNCHANGED <<mu, gpc, greq, gret, gcalls, requested, closeLog, lab, up, hsh>>
    /\ UNCHANGED <<ser, mnt, dryRun, destroy, wd, pkg, fwb, dmn, agt, ufw>>

DryRunOthers ==
    /\ UNCHANGED <<execVars, poolVars, remoteVars, inflight, faults, ghostVars>>
    /\ UNCHANGED <<mu, gpc, greq, gret, gcalls, requested, closeLog, lab, up, hsh>>
    /\ UNCHANGED <<ser, mnt, ctx, destroy, wd, pkg, fwb, dmn, agt, ufw>>

DestroyOthers ==
    /\ UNCHANGED <<execVars, poolVars, remoteVars, inflight, faults, ghostVars>>
    /\ UNCHANGED <<mu, gpc, greq, gret, gcalls, requested, closeLog, lab, up, hsh>>
    /\ UNCHANGED <<ser, mnt, ctx, dryRun, wd, pkg, fwb, dmn, agt, ufw>>

WdOthers ==
    /\ UNCHANGED <<execVars, poolVars, remoteVars, inflight, faults, ghostVars>>
    /\ UNCHANGED <<mu, gpc, greq, gret, gcalls, requested, closeLog, lab, up, hsh>>
    /\ UNCHANGED <<ser, mnt, ctx, dryRun, destroy, pkg, fwb, dmn, agt, ufw>>

PkgOthers ==
    /\ UNCHANGED <<execVars, poolVars, remoteVars, inflight, faults, ghostVars>>
    /\ UNCHANGED <<mu, gpc, greq, gret, gcalls, requested, closeLog, lab, up, hsh>>
    /\ UNCHANGED <<ser, mnt, ctx, dryRun, destroy, wd, fwb, dmn, agt, ufw>>

FwbOthers ==
    /\ UNCHANGED <<execVars, poolVars, remoteVars, inflight, faults, ghostVars>>
    /\ UNCHANGED <<mu, gpc, greq, gret, gcalls, requested, closeLog, lab, up, hsh>>
    /\ UNCHANGED <<ser, mnt, ctx, dryRun, destroy, wd, pkg, dmn, agt, ufw>>

DmnOthers ==
    /\ UNCHANGED <<execVars, poolVars, remoteVars, inflight, faults, ghostVars>>
    /\ UNCHANGED <<mu, gpc, greq, gret, gcalls, requested, closeLog, lab, up, hsh>>
    /\ UNCHANGED <<ser, mnt, ctx, dryRun, destroy, wd, pkg, fwb, agt, ufw>>

AgtOthers ==
    /\ UNCHANGED <<execVars, poolVars, remoteVars, inflight, faults, ghostVars>>
    /\ UNCHANGED <<mu, gpc, greq, gret, gcalls, requested, closeLog, lab, up, hsh>>
    /\ UNCHANGED <<ser, mnt, ctx, dryRun, destroy, wd, pkg, fwb, dmn, ufw>>

UfwOthers ==
    /\ UNCHANGED <<execVars, poolVars, remoteVars, inflight, faults, ghostVars>>
    /\ UNCHANGED <<mu, gpc, greq, gret, gcalls, requested, closeLog, lab, up, hsh>>
    /\ UNCHANGED <<ser, mnt, ctx, dryRun, destroy, wd, pkg, fwb, dmn, agt>>

\* what the steps of deployHostDockerDaemon leave alone besides the executor
DmnRace ==
    /\ UNCHANGED <<dependsOn, tmpfsIter, run, poolVars, remoteVars>>
    /\ UNCHANGED <<mutations, hostPhases, depViol, rCtr0, labelReadFailed, rRes0, events>>
    /\ UNCHANGED <<mu, gpc, greq, gret, gcalls, requested, closeLog, lab, up, hsh>>
    /\ UNCHANGED <<ser, mnt, ctx, dryRun, destroy, wd, pkg, fwb, agt, ufw>>

\* (the executor and the pool never touch them)

vars == <<execVars, poolVars, remoteVars, inflight, faults, ghostVars, raceVars>>

Goroutines == 1..NumGoroutines

\* no create command built yet
LabIdle ==
    [st |-> "idle", kind |-> "network", hash |-> <<>>, plan |-> <<>>, order |-> <<>>,
     cmd |-> <<>>, remote |-> [sha |-> <<>>, plan |-> <<>>], back |-> <<>>]

\* the byte contents that get uploaded
Contents == {"a", "b"}

\* sha256.Sum256(data) in hex: one digest per content
Sha256(data) == <<"sha256", data>>

\* "/var/lib/hadron/files/" + dataHash
RemotePath(data) == <<"/var/lib/hadron/files/", Sha256(data)>>

Paths == {RemotePath(d) : d \in Contents}

NoFile == [content |-> "", mode |-> ""]

\* no upload made yet to a host without uploaded files
UpIdle ==
    [files |-> [p \in Paths |-> NoFile], st |-> "idle", caller |-> "", data |-> "",
     writes |-> [d \in Contents |-> 0], done |-> {}, calls |-> 0]

\* no container built yet
HashIdle ==
    [st |-> "idle", networks |-> {}, tmpfs |-> {}, envVars |-> {}, labels |-> {},
     results |-> {}, calls |-> 0]

\* no pair of containers built yet
SerIdle == [st |-> "idle", a |-> <<>>, b |-> <<>>, field |-> "", ca |-> "", cb |-> ""]

\* no pair of mounting containers built yet
MntIdle ==
    [st |-> "idle", a |-> <<>>, b |-> <<>>, fs0 |-> <<>>, fs |-> <<>>, ca |-> "", cb |-> "",
     edited |-> "", ca2 |-> ""]

\* NewPlan: ctx is context.Background()
CtxIdle == "background"

\* DryRun not called yet
DryRunIdle == [ret |-> "none", commands |-> {}, shown |-> {}]

\* Destroy not called yet
DestroyIdle == [ret |-> "none", removed |-> <<>>]

\* WaitForDockerReady not called yet
WaitIdle == [st |-> "idle", now |-> 0, deadline |-> 0, hist |-> <<>>, ret |-> "none"]

\* no package step has run: nothing is installed on the host
\* a HostBuilder on which Firewall has not been called: no FirewallConfig
\* exists and hb.firewallConfig is nil (0)
FwbIdle == [configs |-> <<>>, host |-> 0, built |-> FALSE, hostConfig |-> 0]

\* deployHostDockerDaemon not followed command by command: the file
\* /etc/docker/daemon.json of the host is not looked at
DmnIdle == [file |-> "unknown", written |-> FALSE, restarted |-> FALSE, probed |-> FALSE,
            now |-> 0, deadline |-> 0, ret |-> "none"]

\* a new ssh.Pool in a process that has opened no socket to the SSH agent:
\* objs are the client objects created so far, sockets the open agent sockets
AgtIdle == [pc |-> "idle", clients |-> [e \in HostSet |-> 0], objs |-> <<>>,
            sockets |-> {}, opened |-> 0, ret |-> "none", last |-> "none"]

\* no deployHostFirewall call yet
UfwIdle ==
    [pc |-> "idle", i |-> 0, ret |-> "none", current |-> <<>>,
     config |-> [DefaultIncoming |-> "", DefaultOutgoing |-> "", Rules |-> <<>>],
     host |-> [installed |-> FALSE, enabled |-> FALSE, incoming |-> "", outgoing |-> "", rules |-> <<>>],
     host0 |-> [installed |-> FALSE, enabled |-> FALSE, incoming |-> "", outgoing |-> "", rules |-> <<>>]]

PkgIdle == [st |-> "idle", op |-> "", name |-> "", steps |-> <<>>, cmds |-> <<>>,
            ret |-> [nil |-> TRUE, wraps |-> {}], installed |-> {}, before |-> {},
            prev |-> [op |-> "", name |-> "", nil |-> FALSE], calls |-> 0]

PureIdle == lab = LabIdle /\ up = UpIdle /\ hsh = HashIdle /\ ser = SerIdle /\ mnt = MntIdle /\ ctx = CtxIdle /\ dryRun = DryRunIdle /\ destroy = DestroyIdle /\ wd = WaitIdle /\ pkg = PkgIdle /\ fwb = FwbIdle /\ dmn = DmnIdle /\ agt = AgtIdle /\ ufw = UfwIdle

Fingerprints == {"", "SHA256:fp"}

NoHost == "none"

AbsentRes == [present |-> FALSE, sha |-> <<>>, plan |-> ""]

PresentRes(sha) == [present |-> TRUE, sha |-> sha, plan |-> PlanName]

AbsentCtr == [present |-> FALSE, sha |-> <<>>, plan |-> "", running |-> FALSE, health |-> "none"]

RunningCtr(sha, health) ==
    [present |-> TRUE, sha |-> sha, plan |-> PlanName, running |-> TRUE, health |-> health]

\* A container that has been up for a while: healthy if it declares a check.
SettledHealth(c) == IF c.healthCheck THEN "healthy" ELSE "none"

StartPc == [ph |-> PhaseOrder[1], i |-> 1, st |-> "begin", w |-> "call", pulled |-> FALSE]

ClosingPc == [ph |-> "closing", i |-> 0, st |-> "begin", w |-> "call", pulled |-> FALSE]

DonePc == [ph |-> "done", i |-> 0, st |-> "begin", w |-> "call", pulled |-> FALSE]

RaceIdle ==
    /\ mu = [w |-> 0, r |-> {}]
    /\ gpc = [g \in Goroutines |-> "idle"]
    /\ greq = [g \in Goroutines |-> [ep |-> "h1", fp |-> ""]]
    /\ gret = [g \in Goroutines |-> 0]
    /\ gcalls = [g \in Goroutines |-> 0]
    /\ requested = {}
    /\ closeLog = [n |-> 0, total |-> 0, ret |-> "none", changed |-> FALSE]
    /\ PureIdle

ResNames(k) == {Items(k)[i].name : i \in 1..Len(Items(k))}

ResNamed(k, n) == Items(k)[CHOOSE i \in 1..Len(Items(k)) : Items(k)[i].name = n]

\* what may be found on a host for a resource of the plan: nothing, the
\* resource as declared, or an earlier version of it
ResStates(r) == {AbsentRes, PresentRes(ConfigHash(r)), PresentRes(OldHash(r))}

CtrStates(c) ==
    {AbsentCtr, RunningCtr(OldHash(c), SettledHealth(c))}
        \cup {RunningCtr(sha, SettledHealth(c)) : sha \in ContainerConfigHashes(c)}

ResInit(k) ==
    {f \in [ResNames(k) -> UNION {ResStates(ResNamed(k, n)) : n \in ResNames(k)}] :
        \A n \in ResNames(k) : f[n] \in ResStates(ResNamed(k, n))}

CtrInit ==
    {f \in [ContainerNames -> UNION {CtrStates(ContainerNamed(n)) : n \in ContainerNames}] :
        \A n \in ContainerNames : f[n] \in CtrStates(ContainerNamed(n))}

\* The state after newExecutor(plan), for a plan with one of the given
\* dependencies and tmpfs mounts, and hosts holding one of the given sets of
\* networks, volumes and containers.
InitOn(deps, mounts, nets, vols, ctrs) ==
    /\ dependsOn \in deps
    /\ tmpfsIter \in mounts
    /\ pc = StartPc
    /\ result = "running"
    /\ run = 1
    /\ clients = [e \in HostSet |-> 0]
    /\ conns = {}
    /\ \E fn \in nets, fv \in vols :
          rRes = [k \in ResourcePhases |-> IF k = "networks" THEN fn ELSE fv]
    /\ rCtr \in ctrs
    /\ fresh \in [HostSet -> BOOLEAN]
    /\ files = [h \in HostSet |-> {}]
    /\ inflight = {}
    /\ faults = 0
    /\ mutations = {}
    /\ hostPhases = [h \in HostSet |-> {}]
    /\ completed = {}
    /\ failedHost = NoHost
    /\ depViol = {}
    /\ rCtr0 = rCtr
    /\ labelReadFailed = FALSE
    /\ rRes0 = rRes
    /\ events = {}
    /\ RaceIdle

\* any live state of the remote hosts that earlier runs of the plan can leave
InitWith(deps, mounts) == InitOn(deps, mounts, ResInit("networks"), ResInit("volumes"), CtrInit)

Init == InitWith({DependsOnBuilt, DependsOnCyclic}, {TmpfsNone})

\* the plans of the repeated runs: dependencies as built, with and without
\* tmpfs mounts
InitTwice == InitWith({DependsOnBuilt}, {TmpfsNone, TmpfsTwo})

(***************************************************************************)
(* The executor: one sequential walk over phases and items.                *)
(***************************************************************************)
InPhase == pc.ph \notin {"closing", "done"}

Cur == Items(pc.ph)[pc.i]

CurHost == HostAt(pc.ph, pc.i)

\* the early "return nil" of the per-host handlers
Skipped ==
    \/ pc.ph = "packages" /\ ~HostConf(CurHost).packages
    \/ pc.ph = "daemon" /\ ~HostConf(CurHost).hardenDocker
    \/ pc.ph = "firewall" /\ ~HostConf(CurHost).firewall
    \/ pc.ph = "registries" /\ ~HostConf(CurHost).registries

\* first remote command of a handler once it holds its client
FirstStep(ph) ==
    IF ph = "daemon" /\ dmn.file # "unknown" THEN "cfgexists"
    ELSE IF ph \in HostPhases THEN "op"
    ELSE IF ph \in ResourcePhases THEN "exists"
    ELSE "pull"

\* the loops of deployX and the sequence of execute
Advance(p) ==
    IF p.i < Len(Items(p.ph))
    THEN [StartPc EXCEPT !.ph = p.ph, !.i = p.i + 1]
    ELSE IF PhaseIdx(p.ph) < Len(PhaseOrder)
         THEN [StartPc EXCEPT !.ph = PhaseOrder[PhaseIdx(p.ph) + 1]]
         ELSE ClosingPc

\* the handler returned nil
Proceed ==
    /\ pc' = Advance(pc)
    /\ result' = IF Advance(pc) = ClosingPc THEN "ok" ELSE result
    /\ completed' = completed \cup {<<pc.ph, pc.i>>}
    /\ UNCHANGED failedHost

AbortNoDefer ==
    /\ pc' = DonePc
    /\ result' = "error"
    /\ failedHost' = CurHost
    /\ UNCHANGED completed

\* the handler returned an error: execute returns it, the deferred CloseAll runs
Abort ==
    /\ pc' = ClosingPc
    /\ result' = "error"
    /\ failedHost' = CurHost
    /\ UNCHANGED completed

\* (ghost) what the current handler observed
Log(what) == events' = events \cup {<<pc.ph, pc.i, what>>}

Step(st) ==
    /\ pc' = [pc EXCEPT !.st = st, !.w = "call"]
    /\ UNCHANGED <<result, completed, failedHost>>

ExistsCheckIgnored(st) == Step(st)

\* the existence check failed: the handler returns the wrapped check error
ExistsCheckFailed(st) == Abort

\* resourceOperations.existsError / the sentinel deployContainer wraps
ExistsError(ph) ==
    IF ph = "networks" THEN "ErrNetworkCheck"
    ELSE IF ph = "volumes" THEN "ErrVolumeCheck"
    ELSE "ErrContainerCheck"

FailOnLabelError(st) == Abort

\* the label could not be read: a warning is logged and the handler goes on
\* to replace the resource
WillRecreate(st) == Step(st)

Op == [host |-> CurHost, ph |-> pc.ph, i |-> pc.i, st |-> pc.st]

\* outcomes a remote command may have: it fails at most MaxFaults times
Outcomes == IF faults < MaxFaults THEN BOOLEAN ELSE {TRUE}

AfterExecuteNoWait(fl, op) == fl

\* client.Execute returns after session.Wait: the command is no longer in flight
AfterExecute(fl, op) == fl \ {op}

Reply(ok) ==
    /\ pc.w = "wait"
    /\ Op \in inflight
    /\ inflight' = AfterExecute(inflight, Op)
    /\ faults' = IF ok THEN faults ELSE faults + 1

Awaiting(phases, st) == InPhase /\ pc.ph \in phases /\ pc.st = st /\ pc.w = "wait"

MutatingStep(ph, st) ==
    \/ ph \in ResourcePhases /\ st \in {"remove", "create"}
    \/ ph = "containers" /\ st \in {"stop", "remove", "upload", "run"}

\* a dependency is ready: present, running and healthy per its HealthCheck
Ready(b) ==
    /\ rCtr[b].present
    /\ rCtr[b].running
    /\ ContainerNamed(b).healthCheck => rCtr[b].health = "healthy"

SkipHostPhase ==
    /\ InPhase /\ pc.st = "begin" /\ Skipped
    /\ Proceed
    /\ UNCHANGED <<dependsOn, tmpfsIter, run, poolVars, remoteVars, inflight, faults, raceVars>>
    /\ UNCHANGED <<mutations, hostPhases, depViol, rCtr0, labelReadFailed, rRes0, events>>

\* sshPool.GetClient(endpoint) in the executor's single goroutine
GetClient ==
    /\ InPhase /\ pc.st = "begin" /\ ~Skipped
    /\ IF clients[CurHost] # 0 THEN Step(FirstStep(pc.ph)) ELSE Step("connect")
    /\ UNCHANGED <<dependsOn, tmpfsIter, run, poolVars, remoteVars, inflight, faults, raceVars>>
    /\ UNCHANGED <<mutations, hostPhases, depViol, rCtr0, labelReadFailed, rRes0, events>>

\* a blocking call starts: client.connect, client.Execute, UploadFile/UploadData
Issue ==
    /\ InPhase /\ pc.st # "begin" /\ pc.w = "call"
    /\ inflight' = inflight \cup {Op}
    /\ pc' = [pc EXCEPT !.w = "wait"]
    /\ mutations' = IF MutatingStep(pc.ph, pc.st)
                    THEN mutations \cup {<<pc.ph, pc.i, pc.st>>} ELSE mutations
    /\ hostPhases' = [hostPhases EXCEPT ![CurHost] = @ \cup {pc.ph}]
    /\ depViol' = IF pc.ph = "containers" /\ pc.st = "run"
                  THEN depViol \cup {<<Cur.name, b>> : b \in {d \in dependsOn[Cur.name] : ~Ready(d)}}
                  ELSE depViol
    /\ UNCHANGED <<dependsOn, tmpfsIter, result, run, poolVars, remoteVars, faults, raceVars>>
    /\ UNCHANGED <<completed, failedHost, rCtr0, labelReadFailed, rRes0, events>>

ConnectDone(ok) ==
    /\ Awaiting(HostPhases \cup ResourcePhases \cup {"containers"}, "connect")
    /\ Reply(ok)
    /\ IF ok
       THEN /\ conns' = conns \cup {[id |-> Cardinality(conns) + 1, ep |-> CurHost,
                                     fp |-> "", open |-> TRUE]}
            /\ clients' = [clients EXCEPT ![CurHost] = Cardinality(conns) + 1]
            /\ Step(FirstStep(pc.ph))
       ELSE /\ UNCHANGED poolVars
            /\ Abort
    /\ UNCHANGED <<dependsOn, tmpfsIter, run, remoteVars, raceVars>>
    /\ UNCHANGED <<mutations, hostPhases, depViol, rCtr0, labelReadFailed, rRes0, events>>

\* the commands of one per-host handler (packages, daemon config, automatic
\* updates, firewall, registry logins), each awaited before the next
HostOpDone(ok) ==
    /\ Awaiting(HostPhases, "op")
    /\ Reply(ok)
    /\ IF ok THEN Proceed ELSE Abort
    /\ UNCHANGED <<dependsOn, tmpfsIter, run, poolVars, remoteVars, raceVars>>
    /\ UNCHANGED <<mutations, hostPhases, depViol, rCtr0, labelReadFailed, rRes0, events>>

(***************************************************************************)
(* deployResource: networks and volumes.                                   *)
(***************************************************************************)
ExistsDone(ok) ==
    /\ Awaiting(ResourcePhases, "exists")
    /\ Reply(ok)
    /\ IF ~ok THEN ExistsCheckFailed("create")
       ELSE IF rRes[pc.ph][Cur.name].present THEN Step("getlabel") ELSE Step("create")
    /\ IF ok THEN UNCHANGED events
       ELSE events' = events \cup {<<pc.ph, pc.i, "existsfail">>, <<pc.ph, pc.i, ExistsError(pc.ph)>>}
    /\ UNCHANGED <<dependsOn, tmpfsIter, run, poolVars, remoteVars, raceVars>>
    /\ UNCHANGED <<mutations, hostPhases, depViol, rCtr0, labelReadFailed, rRes0>>

GetLabelDone(ok) ==
    /\ Awaiting(ResourcePhases, "getlabel")
    /\ Reply(ok)
    /\ IF ok /\ rRes[pc.ph][Cur.name].sha = ConfigHash(Cur)
       THEN Proceed /\ Log("unchanged")
       ELSE IF ok THEN Step("remove") /\ UNCHANGED events
       ELSE WillRecreate("remove") /\ Log("labelfail")
    /\ labelReadFailed' = (labelReadFailed \/ ~ok)
    /\ UNCHANGED <<dependsOn, tmpfsIter, run, poolVars, remoteVars, raceVars>>
    /\ UNCHANGED <<mutations, hostPhases, depViol, rCtr0, rRes0>>

RemoveErrorIgnored(st) == Step(st)

\* ops.remove failed: deployResource returns "failed to remove old ..."
RemoveFailed(st) == Abort

RemoveDone(ok) ==
    /\ Awaiting(ResourcePhases, "remove")
    /\ Reply(ok)
    /\ IF ok
       THEN /\ rRes' = [rRes EXCEPT ![pc.ph][Cur.name] = AbsentRes]
            /\ Step("create")
       ELSE /\ UNCHANGED rRes
            /\ RemoveFailed("create")
    /\ UNCHANGED <<dependsOn, tmpfsIter, run, poolVars, rCtr, fresh, files, raceVars>>
    /\ UNCHANGED <<mutations, hostPhases, depViol, rCtr0, labelReadFailed, rRes0, events>>

CreateDone(ok) ==
    /\ Awaiting(ResourcePhases, "create")
    /\ Reply(ok)
    /\ IF ok
       THEN /\ rRes' = [rRes EXCEPT ![pc.ph][Cur.name] = PresentRes(ConfigHash(Cur))]
            /\ Proceed
       ELSE /\ UNCHANGED rRes
            /\ Abort
    /\ UNCHANGED <<dependsOn, tmpfsIter, run, poolVars, rCtr, fresh, files, raceVars>>
    /\ UNCHANGED <<mutations, hostPhases, depViol, rCtr0, labelReadFailed, rRes0, events>>

(***************************************************************************)
(* deployContainer.                                                        *)
(***************************************************************************)
\* what `docker pull` prints on success
PullOutput(h) ==
    IF fresh[h] THEN "Status: Image is up to date" ELSE "Status: Downloaded newer image"

\* Executor.PullImage: TRUE iff a new image was pulled
PullImage(stdout) ==
    IF stdout = "Status: Image is up to date" THEN FALSE
    ELSE IF stdout = "Status: Downloaded newer image" THEN TRUE
    ELSE TRUE

\* the step after the old container is gone (or was never there)
AfterRemoval(c) == IF c.mount # "" THEN "upload" ELSE "run"

PullDone(ok) ==
    /\ Awaiting({"containers"}, "pull")
    /\ Reply(ok)
    /\ IF ok
       THEN /\ pc' = [pc EXCEPT !.st = "exists", !.w = "call",
                                !.pulled = PullImage(PullOutput(CurHost))]
            /\ fresh' = [fresh EXCEPT ![CurHost] = TRUE]
            /\ IF PullImage(PullOutput(CurHost)) THEN Log("pullednew") ELSE UNCHANGED events
            /\ UNCHANGED <<result, completed, failedHost>>
       ELSE /\ UNCHANGED <<fresh, events>>
            /\ Abort
    /\ UNCHANGED <<dependsOn, tmpfsIter, run, poolVars, rRes, rCtr, files, raceVars>>
    /\ UNCHANGED <<mutations, hostPhases, depViol, rCtr0, labelReadFailed, rRes0>>

ContainerExistsDone(ok) ==
    /\ Awaiting({"containers"}, "exists")
    /\ Reply(ok)
    /\ IF ~ok THEN ExistsCheckFailed(AfterRemoval(Cur))
       ELSE IF rCtr[Cur.name].present THEN Step("getlabel") ELSE Step(AfterRemoval(Cur))
    /\ IF ok THEN UNCHANGED events
       ELSE events' = events \cup {<<pc.ph, pc.i, "existsfail">>, <<pc.ph, pc.i, ExistsError(pc.ph)>>}
    /\ UNCHANGED <<dependsOn, tmpfsIter, run, poolVars, remoteVars, raceVars>>
    /\ UNCHANGED <<mutations, hostPhases, depViol, rCtr0, labelReadFailed, rRes0>>

UnchangedIgnoringPull(ok) == ok /\ rCtr[Cur.name].sha = ContainerConfigHash(Cur)

\* the container is left alone: label read, hash equal, no newer image
Unchanged(ok) == ok /\ rCtr[Cur.name].sha = ContainerConfigHash(Cur) /\ ~pc.pulled

ContainerLabelDone(ok) ==
    /\ Awaiting({"containers"}, "getlabel")
    /\ Reply(ok)
    /\ IF Unchanged(ok)
       THEN Proceed /\ Log("unchanged")
       ELSE IF ok THEN Step("stop") /\ UNCHANGED events
       ELSE WillRecreate("stop") /\ Log("labelfail")
    /\ labelReadFailed' = (labelReadFailed \/ ~ok)
    /\ NextIteration(Cur.name)
    /\ UNCHANGED <<dependsOn, run, poolVars, remoteVars, raceVars>>
    /\ UNCHANGED <<mutations, hostPhases, depViol, rCtr0, rRes0>>

\* a failed stop is logged and the removal is attempted anyway
StopDone(ok) ==
    /\ Awaiting({"containers"}, "stop")
    /\ Reply(ok)
    /\ rCtr' = IF ok THEN [rCtr EXCEPT ![Cur.name].running = FALSE] ELSE rCtr
    /\ Step("remove")
    /\ UNCHANGED <<dependsOn, tmpfsIter, run, poolVars, rRes, fresh, files, raceVars>>
    /\ UNCHANGED <<mutations, hostPhases, depViol, rCtr0, labelReadFailed, rRes0, events>>

ContainerRemoveDone(ok) ==
    /\ Awaiting({"containers"}, "remove")
    /\ Reply(ok)
    /\ IF ok
       THEN /\ rCtr' = [rCtr EXCEPT ![Cur.name] = AbsentCtr]
            /\ Step(AfterRemoval(Cur))
       ELSE /\ UNCHANGED rCtr
            /\ Abort
    /\ UNCHANGED <<dependsOn, tmpfsIter, run, poolVars, rRes, fresh, files, raceVars>>
    /\ UNCHANGED <<mutations, hostPhases, depViol, rCtr0, labelReadFailed, rRes0, events>>

\* UploadMount: the file lands in the content-addressed store of the host
UploadDone(ok) ==
    /\ Awaiting({"containers"}, "upload")
    /\ Reply(ok)
    /\ IF ok
       THEN /\ files' = [files EXCEPT ![CurHost] = @ \cup {Cur.mount}]
            /\ Step("run")
       ELSE /\ UNCHANGED files
            /\ Abort
    /\ UNCHANGED <<dependsOn, tmpfsIter, run, poolVars, rRes, rCtr, fresh, raceVars>>
    /\ UNCHANGED <<mutations, hostPhases, depViol, rCtr0, labelReadFailed, rRes0, events>>

\* RunContainer (`docker run -d` with the two tracking labels); deployContainer
\* returns nil right after it
RunDone(ok) ==
    /\ Awaiting({"containers"}, "run")
    /\ Reply(ok)
    /\ IF ok
       THEN /\ rCtr' = [rCtr EXCEPT ![Cur.name] =
                          RunningCtr(ContainerConfigHash(Cur),
                                     IF Cur.healthCheck THEN "starting" ELSE "none")]
            /\ Proceed
       ELSE /\ UNCHANGED rCtr
            /\ Abort
    /\ NextIteration(Cur.name)
    /\ UNCHANGED <<dependsOn, run, poolVars, rRes, fresh, files, raceVars>>
    /\ UNCHANGED <<mutations, hostPhases, depViol, rCtr0, labelReadFailed, rRes0, events>>

AfterCloseAllKeep(cl) == cl

\* Pool.CloseAll: p.clients = make(map[string]*client)
AfterCloseAll(cl) == [e \in HostSet |-> 0]

\* client.close on every client of the pool: the connection is dropped
\* whether or not Close returned an error
ClosePooled(cs, cl) ==
    {IF \E e \in HostSet : cl[e] = c.id THEN [c EXCEPT !.open = FALSE] ELSE c : c \in cs}

\* the deferred Pool.CloseAll of execute
CloseAll ==
    /\ pc = ClosingPc
    /\ conns' = ClosePooled(conns, clients)
    /\ clients' = AfterCloseAll(clients)
    /\ pc' = DonePc
    /\ UNCHANGED <<dependsOn, tmpfsIter, result, run, remoteVars, inflight, faults, ghostVars, raceVars>>

\* the remote side: a started container with a health check settles
HealthChange(n, h) ==
    /\ rCtr[n].present /\ rCtr[n].running /\ rCtr[n].health = "starting"
    /\ rCtr' = [rCtr EXCEPT ![n].health = h]
    /\ UNCHANGED <<execVars, poolVars, rRes, fresh, files, inflight, faults, ghostVars, raceVars>>

\* Plan.Execute is called again on the same Plan after a successful run
Rerun ==
    /\ pc = DonePc /\ result = "ok" /\ run < MaxRuns
    /\ pc' = StartPc
    /\ result' = "running"
    /\ run' = run + 1
    /\ mutations' = {}
    /\ hostPhases' = [h \in HostSet |-> {}]
    /\ completed' = {}
    /\ depViol' = {}
    /\ rCtr0' = rCtr
    /\ labelReadFailed' = FALSE
    /\ rRes0' = rRes
    /\ events' = {}
    /\ UNCHANGED <<dependsOn, tmpfsIter, poolVars, remoteVars, inflight, faults, failedHost, raceVars>>

Next ==
    \/ SkipHostPhase
    \/ GetClient
    \/ Issue
    \/ \E ok \in Outcomes : ConnectDone(ok)
    \/ \E ok \in Outcomes : HostOpDone(ok)
    \/ \E ok \in Outcomes : ExistsDone(ok)
    \/ \E ok \in Outcomes : GetLabelDone(ok)
    \/ \E ok \in Outcomes : RemoveDone(ok)
    \/ \E ok \in Outcomes : CreateDone(ok)
    \/ \E ok \in Outcomes : PullDone(ok)
    \/ \E ok \in Outcomes : ContainerExistsDone(ok)
    \/ \E ok \in Outcomes : ContainerLabelDone(ok)
    \/ \E ok \in Outcomes : StopDone(ok)
    \/ \E ok \in Outcomes : ContainerRemoveDone(ok)
    \/ \E ok \in Outcomes : UploadDone(ok)
    \/ \E ok \in Outcomes : RunDone(ok)
    \/ CloseAll
    \/ \E n \in ContainerNames, h \in {"healthy", "unhealthy"} : HealthChange(n, h)

Spec == Init /\ [][Next]_vars

NextTwice == Next \/ Rerun

SpecTwice == InitTwice /\ [][NextTwice]_vars

(***************************************************************************)
(* ssh.Pool.GetClientWithFingerprint under concurrent callers.             *)
(***************************************************************************)
\* RLock succeeds while no writer holds Pool.mu
CanRLock == mu.w = 0

\* Lock succeeds while nobody holds Pool.mu
CanLock == mu.w = 0 /\ mu.r = {}

NoDoubleCheck(e) == FALSE

\* the second lookup, under the write lock
DoubleCheck(e) == clients[e] # 0

Call(g, e, f) ==
    /\ gpc[g] = "idle" /\ gcalls[g] < MaxCalls
    /\ gpc' = [gpc EXCEPT ![g] = "rlock"]
    /\ greq' = [greq EXCEPT ![g] = [ep |-> e, fp |-> f]]
    /\ gret' = [gret EXCEPT ![g] = 0]
    /\ gcalls' = [gcalls EXCEPT ![g] = @ + 1]
    /\ requested' = requested \cup {e}
    /\ closeLog' = [closeLog EXCEPT !.n = 0]
    /\ UNCHANGED <<pureVars, execVars, poolVars, remoteVars, inflight, faults, ghostVars, mu>>

RLock(g) ==
    /\ gpc[g] = "rlock" /\ CanRLock
    /\ mu' = [mu EXCEPT !.r = @ \cup {g}]
    /\ gpc' = [gpc EXCEPT ![g] = "rcheck"]
    /\ UNCHANGED <<pureVars, execVars, poolVars, remoteVars, inflight, faults, ghostVars>>
    /\ UNCHANGED <<greq, gret, gcalls, requested, closeLog>>

\* the lookup under the read lock, then RUnlock on either branch
RCheck(g) ==
    /\ gpc[g] = "rcheck"
    /\ mu' = [mu EXCEPT !.r = @ \ {g}]
    /\ IF clients[greq[g].ep] # 0
       THEN /\ gret' = [gret EXCEPT ![g] = clients[greq[g].ep]]
            /\ gpc' = [gpc EXCEPT ![g] = "idle"]
       ELSE /\ gpc' = [gpc EXCEPT ![g] = "lock"]
            /\ UNCHANGED gret
    /\ UNCHANGED <<pureVars, execVars, poolVars, remoteVars, inflight, faults, ghostVars>>
    /\ UNCHANGED <<greq, gcalls, requested, closeLog>>

Lock(g) ==
    /\ gpc[g] = "lock" /\ CanLock
    /\ mu' = [mu EXCEPT !.w = g]
    /\ gpc' = [gpc EXCEPT ![g] = "dcheck"]
    /\ UNCHANGED <<pureVars, execVars, poolVars, remoteVars, inflight, faults, ghostVars>>
    /\ UNCHANGED <<greq, gret, gcalls, requested, closeLog>>

\* found under the write lock: return it (deferred Unlock); else start
\* client.connect, still holding the write lock
DCheck(g) ==
    /\ gpc[g] = "dcheck"
    /\ IF DoubleCheck(greq[g].ep)
       THEN /\ gret' = [gret EXCEPT ![g] = clients[greq[g].ep]]
            /\ gpc' = [gpc EXCEPT ![g] = "idle"]
            /\ mu' = [mu EXCEPT !.w = 0]
       ELSE /\ gpc' = [gpc EXCEPT ![g] = "connect"]
            /\ UNCHANGED <<gret, mu>>
    /\ UNCHANGED <<pureVars, execVars, poolVars, remoteVars, inflight, faults, ghostVars>>
    /\ UNCHANGED <<greq, gcalls, requested, closeLog>>

AfterFailedConnectStored(cl, e) == [cl EXCEPT ![e] = MaxCalls * NumGoroutines + 1]

\* connect failed: GetClientWithFingerprint returns before `p.clients[key] = client`
AfterFailedConnect(cl, e) == cl

\* client.connect returns: the client is stored, or the error is returned
\* and nothing is stored; the deferred Unlock runs either way
ConnectReturn(g, ok) ==
    /\ gpc[g] = "connect"
    /\ faults' = IF ok THEN faults ELSE faults + 1
    /\ IF ok
       THEN /\ conns' = conns \cup {[id |-> Cardinality(conns) + 1, ep |-> greq[g].ep,
                                     fp |-> greq[g].fp, open |-> TRUE]}
            /\ clients' = [clients EXCEPT ![greq[g].ep] = Cardinality(conns) + 1]
            /\ gret' = [gret EXCEPT ![g] = Cardinality(conns) + 1]
       ELSE /\ conns' = conns
            /\ clients' = AfterFailedConnect(clients, greq[g].ep)
            /\ gret' = [gret EXCEPT ![g] = -1]
    /\ gpc' = [gpc EXCEPT ![g] = "idle"]
    /\ mu' = [mu EXCEPT !.w = 0]
    /\ UNCHANGED <<pureVars, execVars, remoteVars, inflight, ghostVars>>
    /\ closeLog' = [closeLog EXCEPT !.n = 0]
    /\ UNCHANGED <<greq, gcalls, requested>>

\* a fresh pool (NewPool) shared by the goroutines; no executor is running
InitPool ==
    /\ dependsOn = DependsOnBuilt
    /\ tmpfsIter = TmpfsNone
    /\ pc = DonePc
    /\ result = "ok"
    /\ run = 1
    /\ clients = [e \in HostSet |-> 0]
    /\ conns = {}
    /\ rRes = [k \in ResourcePhases |-> [n \in ResNames(k) |-> AbsentRes]]
    /\ rCtr = [n \in ContainerNames |-> AbsentCtr]
    /\ fresh = [h \in HostSet |-> TRUE]
    /\ files = [h \in HostSet |-> {}]
    /\ inflight = {}
    /\ faults = 0
    /\ mutations = {}
    /\ hostPhases = [h \in HostSet |-> {}]
    /\ completed = {}
    /\ failedHost = NoHost
    /\ depViol = {}
    /\ rCtr0 = rCtr
    /\ labelReadFailed = FALSE
    /\ rRes0 = rRes
    /\ events = {}
    /\ RaceIdle

NextPool ==
    \/ \E g \in Goroutines, e \in HostSet, f \in Fingerprints : Call(g, e, f)
    \/ \E g \in Goroutines : RLock(g)
    \/ \E g \in Goroutines : RCheck(g)
    \/ \E g \in Goroutines : Lock(g)
    \/ \E g \in Goroutines : DCheck(g)
    \/ \E g \in Goroutines, ok \in Outcomes : ConnectReturn(g, ok)

SpecPool == InitPool /\ [][NextPool]_vars

\* Pool.Size
Size == Cardinality({e \in HostSet : clients[e] # 0})

\* Pool.CloseAll called on the shared pool, under the write lock; ok = FALSE:
\* some client.close returned an error
PoolCloseAll(ok) ==
    /\ closeLog.total < MaxCloses
    /\ CanLock
    /\ ~ok => Size > 0
    /\ conns' = ClosePooled(conns, clients)
    /\ clients' = AfterCloseAll(clients)
    /\ faults' = IF ok THEN faults ELSE faults + 1
    /\ closeLog' = [n |-> IF closeLog.n < 2 THEN closeLog.n + 1 ELSE 2,
                    total |-> closeLog.total + 1,
                    ret |-> IF ok THEN "nil" ELSE "error",
                    changed |-> (conns' # conns \/ clients' # clients)]
    /\ UNCHANGED <<pureVars, execVars, remoteVars, inflight, ghostVars>>
    /\ UNCHANGED <<mu, gpc, greq, gret, gcalls, requested>>

NextPoolClose ==
    \/ NextPool
    \/ \E ok \in Outcomes : PoolCloseAll(ok)

SpecPoolClose == InitPool /\ [][NextPoolClose]_vars

(***************************************************************************)
(* The tracking labels of a create command.  A command is the string the   *)
(* remote shell receives, kept as a sequence of units: the characters of   *)
(* an interpolated value one by one, a fixed word of the command (which    *)
(* holds no white space) as a single unit.                                 *)
(***************************************************************************)
LabelConfigSHA == "hadron.config.sha"

LabelPlan == "hadron.plan"

HexDigits == {"0", "f"}

NameChars == {"p", " "}

\* hex.EncodeToString(sha256.Sum256(...)): hex digits only
Digests == [1..MaxLen -> HexDigits]

\* NewPlan(name) takes any string
PlanNames == UNION {[1..k -> NameChars] : k \in 1..MaxLen}

Kinds == {"network", "volume", "container"}

\* `for k, v := range labels`: either order
LabelOrders == {<<LabelConfigSHA, LabelPlan>>, <<LabelPlan, LabelConfigSHA>>}

\* fmt.Sprintf(" --label %s=%s", k, v)
LabelFlagFormat(k, v) == <<" ", "--label", " ", k, "=">> \o v

CommandHead(kind) ==
    IF kind = "network" THEN <<"docker", " ", "network", " ", "create", " ", "-d", " ", "bridge">>
    ELSE IF kind = "volume"
         THEN <<"docker", " ", "volume", " ", "create", " ", "--driver", " ", "local">>
         ELSE <<"docker", " ", "run", " ", "-d", " ", "--name", " ", "name">>

\* the last word: the name of the network or volume, the image of the container
CommandTail(kind) == IF kind = "container" THEN <<" ", "image">> ELSE <<" ", "name">>

\* CreateNetwork / CreateVolume / RunContainer build the command
CreateCommand(kind, order, sha, plan) ==
    LET value(k) == IF k = LabelConfigSHA THEN sha ELSE plan
    IN  CommandHead(kind) \o LabelFlagFormat(order[1], value(order[1]))
            \o LabelFlagFormat(order[2], value(order[2])) \o CommandTail(kind)

\* the remote shell splits the command into words at white space
RECURSIVE ShellWords(_, _, _)
ShellWords(cmd, cur, acc) ==
    IF cmd = <<>> THEN (IF cur = <<>> THEN acc ELSE Append(acc, cur))
    ELSE IF Head(cmd) = " "
         THEN ShellWords(Tail(cmd), <<>>, IF cur = <<>> THEN acc ELSE Append(acc, cur))
         ELSE ShellWords(Tail(cmd), Append(cur, Head(cmd)), acc)

\* the value of a `key=value` word
RECURSIVE AfterEquals(_)
AfterEquals(w) ==
    IF w = <<>> THEN <<>> ELSE IF Head(w) = "=" THEN Tail(w) ELSE AfterEquals(Tail(w))

\* docker reads its arguments: a flag that takes a value consumes the next
\* word, every other word that is no flag is positional
RECURSIVE DockerArgs(_, _)
DockerArgs(words, acc) ==
    IF words = <<>> THEN acc
    ELSE LET w == Head(words) IN
         IF w \in {<<"--label">>, <<"--driver">>, <<"--name">>} \/ (w = <<"-d">> /\ acc.sub # "run")
         THEN IF Len(words) = 1 THEN [acc EXCEPT !.bad = TRUE]
              ELSE LET v == words[2] IN
                   DockerArgs(Tail(Tail(words)),
                       IF w # <<"--label">> THEN acc
                       ELSE IF Head(v) = LabelConfigSHA THEN [acc EXCEPT !.sha = AfterEquals(v)]
                       ELSE IF Head(v) = LabelPlan THEN [acc EXCEPT !.plan = AfterEquals(v)]
                       ELSE acc)
         ELSE IF w = <<"-d">> THEN DockerArgs(Tail(words), acc)
         ELSE DockerArgs(Tail(words), [acc EXCEPT !.pos = Append(@, w)])

\* what docker makes of the command: the labels it carries, its positional
\* arguments
Parsed(kind, cmd) ==
    LET words == ShellWords(cmd, <<>>, <<>>)
        skip == IF kind = "container" THEN 2 ELSE 3
    IN  DockerArgs(SubSeq(words, skip + 1, Len(words)),
                   [sub |-> IF kind = "container" THEN "run" ELSE "create",
                    sha |-> <<>>, plan |-> <<>>, pos |-> <<>>, bad |-> FALSE])

\* docker accepts the command: exactly the one positional argument expected
\* (a second one is a usage error for create, another image or command for run)
Accepted(kind, cmd) ==
    /\ ~Parsed(kind, cmd).bad
    /\ Parsed(kind, cmd).pos = <<SubSeq(CommandTail(kind), 2, 2)>>

IsSpace(u) == u \in {" ", "\n"}

\* strings.TrimSpace
RECURSIVE TrimLeft(_)
TrimLeft(str) ==
    IF str # <<>> /\ IsSpace(Head(str)) THEN TrimLeft(Tail(str)) ELSE str

RECURSIVE TrimRight(_)
TrimRight(str) ==
    IF str # <<>> /\ IsSpace(str[Len(str)]) THEN TrimRight(SubSeq(str, 1, Len(str) - 1)) ELSE str

TrimSpace(str) == TrimRight(TrimLeft(str))

\* Get{Network,Volume,Container}Label: `docker ... inspect -f '{{index
\* .Labels "key"}}'` prints the value and a newline
GetLabel(labels, key) ==
    TrimSpace((IF key = LabelConfigSHA THEN labels.sha ELSE labels.plan) \o <<"\n">>)

\* deployResource / deployContainer build the create command of a resource
\* with digest sha in a plan named plan
BuildCreate(kind, order, sha, plan) ==
    /\ lab.st = "idle"
    /\ lab' = [lab EXCEPT !.st = "built", !.kind = kind, !.hash = sha, !.plan = plan,
                          !.order = order, !.cmd = CreateCommand(kind, order, sha, plan)]
    /\ UNCHANGED <<execVars, poolVars, remoteVars, inflight, faults, ghostVars>>
    /\ UNCHANGED <<mu, gpc, greq, gret, gcalls, requested, closeLog, up, hsh, unitVars>>

\* client.Execute(cmd): the resource is created with the labels docker read
ExecuteCreate ==
    /\ lab.st = "built"
    /\ lab' = IF Accepted(lab.kind, lab.cmd)
              THEN [lab EXCEPT !.st = "created",
                               !.remote = [sha |-> Parsed(lab.kind, lab.cmd).sha,
                                           plan |-> Parsed(lab.kind, lab.cmd).plan]]
              ELSE [lab EXCEPT !.st = "failed"]
    /\ UNCHANGED <<execVars, poolVars, remoteVars, inflight, faults, ghostVars>>
    /\ UNCHANGED <<mu, gpc, greq, gret, gcalls, requested, closeLog, up, hsh, unitVars>>

\* the next run reads the config-hash label of the created resource
ReadLabel ==
    /\ lab.st = "created"
    /\ lab' = [lab EXCEPT !.st = "read", !.back = GetLabel(lab.remote, LabelConfigSHA)]
    /\ UNCHANGED <<execVars, poolVars, remoteVars, inflight, faults, ghostVars>>
    /\ UNCHANGED <<mu, gpc, greq, gret, gcalls, requested, closeLog, up, hsh, unitVars>>

NextLabels ==
    \/ \E kind \in Kinds, order \in LabelOrders, sha \in Digests, plan \in PlanNames :
          BuildCreate(kind, order, sha, plan)
    \/ ExecuteCreate
    \/ ReadLabel

SpecLabels == InitPool /\ [][NextLabels]_vars

(***************************************************************************)
(* Content-addressed uploads (docker Executor.uploadContentAddressable and *)
(* its four callers) to one host.                                          *)
(***************************************************************************)
PermSecretFile == "0600"

PermPublicFile == "0644"

\* the mode of a file the SFTP server created and nobody chmod-ed yet
PermServerDefault == "default"

\* uploadEnvFile, uploadEnvVarsFile, UploadMount (single file), UploadDataMount
Callers == {"uploadEnvFile", "uploadEnvVarsFile", "UploadMount", "UploadDataMount"}

\* the permissions argument of the caller (none: PermSecretFile)
PermOf(caller) ==
    IF caller \in {"UploadMount", "UploadDataMount"} THEN PermPublicFile ELSE PermSecretFile

FileNeverExists(fs, path) == FALSE

\* `test -f path && echo exists || echo missing`
FileExists(fs, path) == fs[path] # NoFile

\* how client.UploadData ends: done; OpenFile failed; Write or Close failed
\* (the file holds part of the data); Chmod failed
UploadDataOutcomes ==
    IF faults < MaxFaults THEN {"ok", "nocreate", "partial", "nochmod"} ELSE {"ok"}

UpOthers ==
    /\ UNCHANGED <<execVars, poolVars, remoteVars, inflight, ghostVars>>
    /\ UNCHANGED <<mu, gpc, greq, gret, gcalls, requested, closeLog, lab, hsh, unitVars>>

\* uploadContentAddressable returned remotePath, nil
Uploaded(u) ==
    [u EXCEPT !.st = "idle",
              !.done = @ \cup {[caller |-> u.caller, data |-> u.data, path |-> RemotePath(u.data)]}]

Upload(caller, data) ==
    /\ up.st = "idle" /\ up.calls < MaxUploads
    /\ up' = [up EXCEPT !.st = "check", !.caller = caller, !.data = data, !.calls = @ + 1]
    /\ UNCHANGED faults
    /\ UpOthers

\* 3. the existence check: found, the path is returned and nothing is written
CheckDone(ok) ==
    /\ up.st = "check"
    /\ faults' = IF ok THEN faults ELSE faults + 1
    /\ up' = IF ~ok THEN [up EXCEPT !.st = "idle"]
             ELSE IF FileExists(up.files, RemotePath(up.data)) THEN Uploaded(up)
             ELSE [up EXCEPT !.st = "mkdir"]
    /\ UpOthers

MkdirDone(ok) ==
    /\ up.st = "mkdir"
    /\ faults' = IF ok THEN faults ELSE faults + 1
    /\ up' = [up EXCEPT !.st = IF ok THEN "data" ELSE "idle"]
    /\ UpOthers

\* client.UploadData: OpenFile(O_CREATE|O_TRUNC), Write, Close, Chmod(0600)
UploadDataDone(outcome) ==
    /\ up.st = "data"
    /\ faults' = IF outcome = "ok" THEN faults ELSE faults + 1
    /\ LET path == RemotePath(up.data)
           file == IF outcome = "ok" THEN [content |-> up.data, mode |-> PermSecretFile]
                   ELSE IF outcome = "partial"
                        THEN [content |-> "partial", mode |-> PermServerDefault]
                        ELSE [content |-> up.data, mode |-> PermServerDefault]
       IN  up' = IF outcome = "nocreate" THEN [up EXCEPT !.st = "idle"]
                 ELSE LET w == [up EXCEPT !.files[path] = file, !.writes[up.data] = @ + 1]
                      IN  IF outcome # "ok" THEN [w EXCEPT !.st = "idle"]
                          ELSE IF PermOf(up.caller) # PermSecretFile THEN [w EXCEPT !.st = "chmod"]
                          ELSE Uploaded(w)
    /\ UpOthers

\* `chmod 644 path` when the caller asked for other than PermSecretFile
ChmodDone(ok) ==
    /\ up.st = "chmod"
    /\ faults' = IF ok THEN faults ELSE faults + 1
    /\ up' = IF ok
             THEN Uploaded([up EXCEPT !.files[RemotePath(up.data)].mode = PermOf(up.caller)])
             ELSE [up EXCEPT !.st = "idle"]
    /\ UpOthers

NextUpload ==
    \/ \E caller \in Callers, data \in Contents : Upload(caller, data)
    \/ \E ok \in Outcomes : CheckDone(ok)
    \/ \E ok \in Outcomes : MkdirDone(ok)
    \/ \E outcome \in UploadDataOutcomes : UploadDataDone(outcome)
    \/ \E ok \in Outcomes : ChmodDone(ok)

SpecUpload == InitPool /\ [][NextUpload]_vars

(***************************************************************************)
(* Container.ConfigHash as a function of the container's fields and of the *)
(* order in which each `range` over a map, and each slice, yields its      *)
(* entries.  Names, mount points and keys are numbered in the order of     *)
(* sort.Strings.                                                           *)
(***************************************************************************)
Keys == 1..MaxKeys

\* sort.Strings
SortStrings(seq) == SortSeq(seq, LAMBDA a, b : a < b)

Tagged(tag, seq) == [i \in 1..Len(seq) |-> <<tag, seq[i]>>]

\* sha256.Sum256 and hex.EncodeToString: one digest per input, 2 * 32 digits
Sha256Hex(config) == [digest |-> <<"sha256", config>>, len |-> 2 * 32]

\* the configParts of ConfigHash for a container with the given networks,
\* tmpfs mounts, env vars and labels; it gives, for each collection, the
\* order in which the code's loop over it sees the entries
ConfigParts(c, it) ==
    <<"name", "image">>
        \o (IF c.networks # {} THEN <<<<"networks", SortStrings(it.networks)>>>> ELSE <<>>)
        \o Tagged("tmpfs", it.tmpfs)
        \o Tagged("env", SortStrings(it.envVars))
        \o Tagged("label", SortStrings(it.labels))
        \o <<"readonly=false", "", "", "", "", "restart">>

\* strings.Join(configParts, "|") and its digest
ContainerHashOf(c, it) == Sha256Hex(ConfigParts(c, it))

HashOthers ==
    /\ UNCHANGED <<execVars, poolVars, remoteVars, inflight, faults, ghostVars>>
    /\ UNCHANGED <<mu, gpc, greq, gret, gcalls, requested, closeLog, lab, up, unitVars>>

\* ContainerBuilder.Build: containers with these logical fields exist
BuildContainer(networks, tmpfs, envVars, labels) ==
    /\ hsh.st = "idle"
    /\ hsh' = [hsh EXCEPT !.st = "built", !.networks = networks, !.tmpfs = tmpfs,
                          !.envVars = envVars, !.labels = labels]
    /\ HashOthers

\* one ConfigHash call on a container with these fields; it: the insertion
\* order of its networks slice and the orders its map loops take this time
ConfigHashCall ==
    /\ hsh.st = "built" /\ hsh.calls < MaxHashCalls
    /\ \E n \in Orders(hsh.networks), t \in Orders(hsh.tmpfs),
          e \in Orders(hsh.envVars), l \in Orders(hsh.labels) :
          hsh' = [hsh EXCEPT
                    !.calls = @ + 1,
                    !.results = @ \cup {ContainerHashOf(hsh, [networks |-> n, tmpfs |-> t,
                                                              envVars |-> e, labels |-> l])}]
    /\ HashOthers

NextHash ==
    \/ \E networks, tmpfs, envVars, labels \in SUBSET Keys :
          BuildContainer(networks, tmpfs, envVars, labels)
    \/ ConfigHashCall

SpecHash == InitPool /\ [][NextHash]_vars

(***************************************************************************)
(* Container.ConfigHash as a function of the scalar and list fields of the *)
(* container: the string `config` that is hashed, character by character.  *)
(***************************************************************************)
\* strings.Join(elems, sep)
RECURSIVE StringsJoin(_, _)
StringsJoin(elems, sep) ==
    IF elems = <<>> THEN ""
    ELSE IF Len(elems) = 1 THEN elems[1]
         ELSE elems[1] \o sep \o StringsJoin(Tail(elems), sep)

CommaSeparator == ","

\* the env var keys, in the order of sort.Strings
EnvKeyOrder == <<"A", "B">>

\* envKeys after sort.Strings(envKeys)
SortedEnvKeys(envVars) == SelectSeq(EnvKeyOrder, LAMBDA k : k \in DOMAIN envVars)

\* the values a field of a container takes here; "" and <<>> are the zero
\* values of the builder, healthCheck "" is a nil *HealthCheck; Build lets
\* no container through without a memory limit
FieldValues(f) ==
    CASE f = "image" -> {"nginx:1", "nginx:2"}
      [] f = "envVars" -> {<<>>, [A |-> "1"], [A |-> "2"], [A |-> "1", B |-> "1"]}
      [] f = "ports" -> {<<>>, <<"80:80">>, <<"80:80", "443:443">>}
      [] f = "capAdd" -> {<<>>, <<"NET_ADMIN">>, <<"NET_ADMIN", "SYS_TIME">>}
      [] f = "memory" -> {"512m", "1g", "2g"}
      [] f = "user" -> {"", "1000", "1000:1000"}
      [] f = "hostname" -> {"", "web", "web2"}
      [] f = "networkAlias" -> {"", "app"}
      [] f = "healthCheck" -> {"", "HTTP localhost:8080/health", "TCP localhost:3306"}
      [] f = "host" -> {"h1", "h2"}

Fields ==
    {"image", "envVars", "ports", "capAdd", "memory", "user", "hostname", "networkAlias",
     "healthCheck", "host"}

\* plan.Container("web").Host(h1).Image("nginx:1").Memory("512m").CPUShares(512)
\*     .CPUs("1").PidsLimit(100).Build()
BareContainer ==
    [name |-> "web", host |-> "h1", image |-> "nginx:1", user |-> "", memory |-> "512m",
     memoryReservation |-> "", cpuShares |-> 512, cpus |-> "1", pidsLimit |-> 100,
     hostname |-> "", networkAlias |-> "", ports |-> <<>>, envVars |-> <<>>,
     mounts |-> <<>>, capAdd |-> <<>>, healthCheck |-> "", restart |-> "unless-stopped",
     readOnly |-> FALSE]

\* the same with one port, one env var, a higher limit and a health check
ServiceContainer ==
    [BareContainer EXCEPT !.ports = <<"80:80">>, !.envVars = [A |-> "1"], !.memory = "1g",
                          !.healthCheck = "HTTP localhost:8080/health"]

\* every field set
FullContainer ==
    [ServiceContainer EXCEPT !.user = "1000", !.hostname = "web", !.networkAlias = "app",
                             !.capAdd = <<"NET_ADMIN">>, !.host = "h2", !.image = "nginx:2"]

SomeContainers == {BareContainer, ServiceContainer, FullContainer}

\* "true" / "false" of %t
FormatBool(b) == IF b THEN "true" ELSE "false"

\* the local files and directories: a path holds nothing, a regular file
\* with its bytes, or a directory with the files filepath.Walk visits (in
\* lexical order) under it; an entry that cannot be opened is not readable
LocalPaths == {"/srv/a", "/srv/b"}

NoEntry == [kind |-> "none", data |-> "", tree |-> <<>>, readable |-> FALSE]

RegularFile(data, readable) == [kind |-> "file", data |-> data, tree |-> <<>>, readable |-> readable]

Dir(tree) == [kind |-> "dir", data |-> "", tree |-> tree, readable |-> TRUE]

Trees == {<<[rel |-> "f", data |-> "x"]>>, <<[rel |-> "f", data |-> "y"]>>}

Entries ==
    {NoEntry} \cup {RegularFile(d, r) : d \in {"x", "y"}, r \in BOOLEAN} \cup {Dir(t) : t \in Trees}

\* no local file is read
EmptyDisk == [p \in LocalPaths |-> NoEntry]

\* hex.EncodeToString(hash.Sum(nil)) of the bytes written to the hash
HexSum(stream) == "sha256(" \o stream \o ")"

HashError == "error"

\* hash.File: the digest of the bytes of the file
HashFile(e) == IF ~e.readable THEN HashError ELSE HexSum(e.data)

\* the bytes hash.Directory writes for the entries below the root
RECURSIVE WalkStream(_)
WalkStream(tree) ==
    IF tree = <<>> THEN "" ELSE tree[1].rel \o tree[1].data \o WalkStream(Tail(tree))

\* hash.Directory: relative path and bytes of every entry, the root (".") first
HashDirectory(e) == HexSum("." \o WalkStream(e.tree))

HashPathByName(p, e) == HexSum(p)

\* hash.Path
HashPath(p, e) ==
    IF e.kind = "none" THEN HashError
    ELSE IF e.kind # "dir" THEN HashFile(e) ELSE HashDirectory(e)

\* the part of one FileMount: by content, by path when hashing failed
MountPart(mount, disk) ==
    IF HashPath(mount.localPath, disk[mount.localPath]) = HashError
    THEN "mount:" \o mount.localPath \o ":" \o mount.containerPath \o ":" \o mount.mode
    ELSE "mount:" \o HashPath(mount.localPath, disk[mount.localPath]) \o ":"
            \o mount.containerPath \o ":" \o mount.mode

\* configParts as ConfigHash appends them, for a container without command,
\* networks, volumes, data mounts, tmpfs, env file, labels, security
\* options, dropped capabilities and groups
ConfigPartsOfFields(c, disk) ==
    <<c.name, c.image>>
        \o (IF c.user # "" THEN <<c.user>> ELSE <<>>)
        \o (IF c.memory # "" THEN <<c.memory>> ELSE <<>>)
        \o (IF c.memoryReservation # "" THEN <<c.memoryReservation>> ELSE <<>>)
        \o (IF c.cpuShares > 0 THEN <<"cpu-shares:" \o ToString(c.cpuShares)>> ELSE <<>>)
        \o (IF c.cpus # "" THEN <<"cpus:" \o c.cpus>> ELSE <<>>)
        \o (IF c.pidsLimit > 0 THEN <<"pids-limit:" \o ToString(c.pidsLimit)>> ELSE <<>>)
        \o (IF c.hostname # "" THEN <<c.hostname>> ELSE <<>>)
        \o (IF c.networkAlias # "" THEN <<c.networkAlias>> ELSE <<>>)
        \o <<StringsJoin(c.ports, CommaSeparator)>>
        \o <<StringsJoin(<<>>, CommaSeparator)>>
        \o [i \in 1..Len(c.mounts) |-> MountPart(c.mounts[i], disk)]
        \o [i \in 1..Len(SortedEnvKeys(c.envVars)) |->
              SortedEnvKeys(c.envVars)[i] \o "=" \o c.envVars[SortedEnvKeys(c.envVars)[i]]]
        \o <<"readonly=" \o FormatBool(c.readOnly)>>
        \o <<StringsJoin(<<>>, CommaSeparator)>>
        \o <<StringsJoin(<<>>, CommaSeparator)>>
        \o <<StringsJoin(c.capAdd, CommaSeparator)>>
        \o <<StringsJoin(<<>>, CommaSeparator)>>
        \o <<c.restart>>

\* config := strings.Join(configParts, "|")
Config(c, disk) == StringsJoin(ConfigPartsOfFields(c, disk), "|")

\* two containers built alike but for one field
BuildPair(base, f, v) ==
    /\ ser.st = "idle"
    /\ v # base[f]
    /\ ser' = [ser EXCEPT !.st = "built", !.a = base, !.b = [base EXCEPT ![f] = v],
                          !.field = f]
    /\ SerOthers

\* ConfigHash on both
ConfigHashPair ==
    /\ ser.st = "built"
    /\ ser' = [ser EXCEPT !.st = "hashed", !.ca = Config(ser.a, EmptyDisk),
                          !.cb = Config(ser.b, EmptyDisk)]
    /\ SerOthers

NextSensitivity ==
    \/ \E base \in SomeContainers, f \in Fields : \E v \in FieldValues(f) : BuildPair(base, f, v)
    \/ ConfigHashPair

SpecSensitivity == InitPool /\ [][NextSensitivity]_vars

(***************************************************************************)
(* Container.ConfigHash of containers with a file or directory mount.      *)
(***************************************************************************)
\* .Mount(localPath, "/etc/app", "ro")
Mounting(localPath) ==
    [BareContainer EXCEPT
        !.mounts = <<[localPath |-> localPath, containerPath |-> "/etc/app", mode |-> "ro"]>>]

\* two containers built alike but for the local path of their mount
MountPair(pa, pb, disk) ==
    /\ mnt.st = "idle"
    /\ pa # pb
    /\ mnt' = [mnt EXCEPT !.st = "built", !.a = Mounting(pa), !.b = Mounting(pb),
                          !.fs0 = disk, !.fs = disk]
    /\ MntOthers

\* ConfigHash on both
ConfigHashMounted ==
    /\ mnt.st = "built"
    /\ mnt' = [mnt EXCEPT !.st = "hashed", !.ca = Config(mnt.a, mnt.fs),
                          !.cb = Config(mnt.b, mnt.fs)]
    /\ MntOthers

\* the entry with the bytes of its (first) file replaced
Edited(e, data) ==
    IF e.kind = "file" THEN [e EXCEPT !.data = data] ELSE [e EXCEPT !.tree[1].data = data]

\* somebody edits the bytes of the file a mounts (of a file in the directory)
EditFile(data) ==
    /\ mnt.st = "hashed"
    /\ LET p == mnt.a.mounts[1].localPath IN
          /\ mnt.fs[p].kind # "none"
          /\ Edited(mnt.fs[p], data) # mnt.fs[p]
          /\ mnt' = [mnt EXCEPT !.st = "edited", !.edited = p,
                                !.fs[p] = Edited(mnt.fs[p], data)]
    /\ MntOthers

\* ConfigHash on the first again
ConfigHashAgain ==
    /\ mnt.st = "edited"
    /\ mnt' = [mnt EXCEPT !.st = "rehashed", !.ca2 = Config(mnt.a, mnt.fs)]
    /\ MntOthers

NextMounts ==
    \/ \E pa, pb \in LocalPaths : \E disk \in [LocalPaths -> Entries] : MountPair(pa, pb, disk)
    \/ ConfigHashMounted
    \/ \E data \in {"x", "y"} : EditFile(data)
    \/ ConfigHashAgain

SpecMounts == InitPool /\ [][NextMounts]_vars

(***************************************************************************)
(* Plan.DryRun, Plan.Destroy and the context of the plan (sdk/plan.go).    *)
(***************************************************************************)
\* the hosts hold the current images; the plan is as the builders made it
InitPlan == InitWith({DependsOnBuilt}, {TmpfsNone}) /\ fresh = [h \in HostSet |-> TRUE]

\* Plan.DryRun: one log line, then errDryRunNotImplemented; no command is
\* issued and no planned change is shown
DryRun ==
    /\ pc = StartPc
    /\ dryRun.ret = "none"
    /\ dryRun' = [ret |-> "errDryRunNotImplemented", commands |-> {}, shown |-> {}]
    /\ DryRunOthers

NextDryRun == Next \/ DryRun

SpecDryRun == InitPlan /\ [][NextDryRun]_vars

\* Plan.Destroy: one log line, then errDestroyNotImplemented; nothing is removed
Destroy ==
    /\ pc = StartPc
    /\ destroy.ret = "none"
    /\ destroy' = [ret |-> "errDestroyNotImplemented", removed |-> <<>>]
    /\ DestroyOthers

NextDestroy == Destroy

SpecDestroy == Init /\ [][NextDestroy]_vars

\* the caller cancels the context given to Plan.WithContext
Cancel ==
    /\ ctx = "background"
    /\ pc # DonePc
    /\ ctx' = "cancelled"
    /\ CtxOthers

NextCancel == Next \/ Cancel

SpecCancel == InitPlan /\ [][NextCancel]_vars

(***************************************************************************)
(* docker.WaitForDockerReady: `docker info` is probed until it succeeds or *)
(* the deadline has passed.  Time is counted in check intervals (1 s).     *)
(***************************************************************************)
\* deadline := time.Now().Add(timeout)
WaitForDockerReady(timeout) ==
    /\ wd.st = "idle"
    /\ wd' = [wd EXCEPT !.st = "probe", !.deadline = wd.now + timeout]
    /\ WdOthers

AfterFirstFailure(err, now, deadline) ==
    IF ~err THEN "nil" ELSE "errDockerNotReady"

\* what the loop does with the result of a probe that returned at `now`
AfterProbe(err, now, deadline) ==
    IF ~err THEN "nil"
    ELSE IF now > deadline THEN "errDockerNotReady"
    ELSE "sleep"

\* client.Execute("docker info") returns after d, with or without an error
DockerInfoDone(err, d) ==
    /\ wd.st = "probe"
    /\ LET now == wd.now + d
           next == AfterProbe(err, now, wd.deadline)
       IN wd' = [wd EXCEPT !.now = now,
                           !.hist = Append(@, [err |-> err, at |-> now]),
                           !.st = IF next = "sleep" THEN "sleep" ELSE "returned",
                           !.ret = IF next = "sleep" THEN "none" ELSE next]
    /\ WdOthers

\* time.Sleep(checkInterval) returns: at least the interval has passed
SleepDone(late) ==
    /\ wd.st = "sleep"
    /\ wd' = [wd EXCEPT !.st = "probe", !.now = @ + 1 + late]
    /\ WdOthers

NextWait ==
    \/ \E timeout \in 0..MaxTimeout : WaitForDockerReady(timeout)
    \/ \E err \in BOOLEAN, d \in 0..MaxProbeTime : DockerInfoDone(err, d)
    \/ \E late \in 0..1 : SleepDone(late)

SpecWait == InitPool /\ [][NextWait]_vars

(***************************************************************************)
(* debian.EnsureInstalled and debian.EnsureRemoved: the package steps of a *)
(* host.  pkg.installed is the set of packages dpkg lists as `ii`; every   *)
(* client.Execute is one step, which returns an error when the command     *)
(* exits non-zero or the connection fails.  An error value is the set of   *)
(* sentinels errors.Is finds in its chain.                                 *)
(***************************************************************************)
\* the two sentinels of package debian with the text "package installation
\* failed": the exported one of errors.go, the unexported one of package.go
ErrPackageInstallFailed == "debian.ErrPackageInstallFailed"
errPackageInstallFailed == "debian.errPackageInstallFailed"
ErrPackageRemoveFailed == "debian.ErrPackageRemoveFailed"
errPackageRemoveFailed == "debian.errPackageRemoveFailed"
\* the error Execute itself returns, wrapped by the two `%w: %w` of docker.go
ExecuteError == "ssh.Execute"

NilError == [nil |-> TRUE, wraps |-> {}]

\* fmt.Errorf("%w: ...", sentinels...)
Errorf(sentinels) == [nil |-> FALSE, wraps |-> sentinels]

\* errors.Is(err, target): target is one of the values of the chain
ErrorsIs(err, target) == ~err.nil /\ target \in err.wraps

PackageNames == {"curl", "wget", "docker-ce", "this-package-does-not-exist-12345"}

DockerPackages ==
    {"docker-ce", "docker-ce-cli", "containerd.io", "docker-buildx-plugin",
     "docker-compose-plugin"}

\* what the apt repositories of the host can install
Available == {"curl", "wget", "ca-certificates"} \cup DockerPackages

\* one client.Execute: the command, what it does to the packages when it
\* succeeds, and the error the caller builds when it fails
Command(cmd, kind, pkgs, sentinels) ==
    [cmd |-> cmd, kind |-> kind, pkgs |-> pkgs, wraps |-> sentinels]

IsInstalledStep(packageName) ==
    Command("dpkg -l " \o packageName \o " 2>/dev/null | grep '^ii' | grep -q '"
            \o packageName \o "'", "check", {packageName}, {})

installWithApt(packageName) ==
    << Command("apt-get update -qq", "install", {}, {errPackageInstallFailed}),
       Command("DEBIAN_FRONTEND=noninteractive apt-get install -y -qq --no-install-recommends "
               \o packageName, "install", {packageName}, {errPackageInstallFailed}) >>

InstallDocker ==
    << Command("DEBIAN_FRONTEND=noninteractive apt-get update -qq && apt-get install -y -qq --no-install-recommends ca-certificates curl",
            "install", {"ca-certificates", "curl"}, {"errDockerPrereqFailed"}),
       Command("install -m 0755 -d /etc/apt/keyrings", "install", {}, {"errDockerKeyringsDir"}),
       Command("curl -fsSL https://download.docker.com/linux/debian/gpg -o /etc/apt/keyrings/docker.asc",
            "install", {}, {"errDockerGPGDownload"}),
       Command("chmod a+r /etc/apt/keyrings/docker.asc", "install", {}, {"errDockerGPGPermissions"}),
       Command("dpkg --print-architecture", "install", {}, {"errDockerArchFetch", ExecuteError}),
       Command(". /etc/os-release && echo \"$VERSION_CODENAME\"", "install", {},
            {"errDockerCodenameFetch", ExecuteError}),
       Command("echo 'deb ...' | tee /etc/apt/sources.list.d/docker.list > /dev/null",
            "install", {}, {"errDockerRepoWrite"}),
       Command("apt-get update -qq", "install", {}, {"errDockerRepoUpdate"}),
       Command("DEBIAN_FRONTEND=noninteractive apt-get install -y -qq --no-install-recommends docker-ce docker-ce-cli containerd.io docker-buildx-plugin docker-compose-plugin",
            "install", DockerPackages, {"errDockerPackageInstall"}) >>

\* getCustomInstaller: docker-ce has its own installer
Install(packageName) ==
    IF packageName = "docker-ce" THEN InstallDocker ELSE installWithApt(packageName)

Remove(packageName) ==
    << Command("DEBIAN_FRONTEND=noninteractive apt-get remove -y -qq " \o packageName,
            "remove", {packageName}, {errPackageRemoveFailed}),
       Command("apt-get autoremove -y -qq", "remove", {}, {errPackageRemoveFailed}) >>

\* the packages of the host after the command of the step exited zero
Effect(step, installed) ==
    IF step.kind = "remove" THEN installed \ step.pkgs ELSE installed \cup step.pkgs

\* apt-get install exits non-zero for a package no repository has
CanSucceed(step) == step.kind # "install" \/ step.pkgs \subseteq Available

\* a call starts with what the host has installed; the previous call, if
\* any, is remembered
Enter(op, packageName) ==
    [pkg EXCEPT !.st = "check", !.op = op, !.name = packageName,
                !.cmds = <<>>, !.steps = <<>>, !.ret = NilError,
                !.before = pkg.installed,
                !.prev = IF pkg.st = "returned"
                         THEN [op |-> pkg.op, name |-> pkg.name, nil |-> pkg.ret.nil]
                         ELSE pkg.prev]

EnsureInstalled(packageName) ==
    /\ pkg.st \in {"idle", "returned"}
    /\ pkg.calls < MaxEnsureCalls
    /\ pkg' = Enter("EnsureInstalled", packageName)
    /\ PkgOthers

EnsureRemoved(packageName) ==
    /\ pkg.st \in {"idle", "returned"}
    /\ pkg.calls < MaxEnsureCalls
    /\ pkg' = Enter("EnsureRemoved", packageName)
    /\ PkgOthers

\* IsInstalled: any error of Execute is the answer "not installed"
IsInstalled(err, packageName, installed) ==
    IF err THEN FALSE ELSE packageName \in installed

\* the dpkg command of IsInstalled returned; failed: the connection failed
\* (the pipeline itself exits non-zero when grep finds no `ii` line)
IsInstalledDone(failed) ==
    /\ pkg.st = "check"
    /\ LET err == failed \/ pkg.name \notin pkg.installed
           installed == IsInstalled(err, pkg.name, pkg.installed)
           issued == [pkg EXCEPT !.cmds = Append(@, IsInstalledStep(pkg.name))]
           skip == IF pkg.op = "EnsureInstalled" THEN installed ELSE ~installed
           todo == IF pkg.op = "EnsureInstalled" THEN Install(pkg.name) ELSE Remove(pkg.name)
       IN  pkg' = IF skip
                  THEN [issued EXCEPT !.st = "returned", !.ret = NilError, !.calls = @ + 1]
                  ELSE [issued EXCEPT !.st = "run", !.steps = todo]
    /\ PkgOthers

\* the next command of Install or Remove returned
ExecuteDone(ok) ==
    /\ pkg.st = "run"
    /\ LET step == Head(pkg.steps)
           issued == [pkg EXCEPT !.cmds = Append(@, step)]
       IN  /\ ok => CanSucceed(step)
           /\ pkg' = IF ~ok
                     THEN [issued EXCEPT !.st = "returned", !.ret = Errorf(step.wraps),
                                         !.steps = <<>>, !.calls = @ + 1]
                     ELSE IF Len(pkg.steps) = 1
                     THEN [issued EXCEPT !.st = "returned", !.ret = NilError,
                                         !.steps = <<>>, !.calls = @ + 1,
                                         !.installed = Effect(step, @)]
                     ELSE [issued EXCEPT !.steps = Tail(@),
                                         !.installed = Effect(step, @)]
    /\ PkgOthers

NextPackages ==
    \/ \E n \in PackageNames : EnsureInstalled(n)
    \/ \E n \in PackageNames : EnsureRemoved(n)
    \/ \E failed \in BOOLEAN : IsInstalledDone(failed)
    \/ \E ok \in BOOLEAN : ExecuteDone(ok)

SpecPackages == InitPool /\ [][NextPackages]_vars

(***************************************************************************)
(* HostBuilder.Firewall and the FirewallBuilder.  A FirewallConfig is an   *)
(* object on the heap: fwb.configs[id]; a FirewallBuilder, the HostBuilder *)
(* (fwb.host) and the built Host (fwb.hostConfig) hold pointers to it, 0   *)
(* being nil.  The caller keeps every FirewallBuilder it was given and may *)
(* call its methods at any time before HostBuilder.Build.                  *)
(***************************************************************************)
portSSH == 22

portHTTP == 80

portHTTPS == 443

protocolTCP == "tcp"

protocolUDP == "udp"

FirewallRule(port, protocol, rateLimit) ==
    [Port |-> port, Protocol |-> protocol, RateLimit |-> rateLimit]

\* the configuration HostBuilder.Firewall starts from
DefaultFirewallConfig ==
    [DefaultIncoming |-> "deny", DefaultOutgoing |-> "allow",
     Rules |-> << FirewallRule(portSSH, protocolTCP, TRUE),
                  FirewallRule(portHTTP, protocolTCP, FALSE),
                  FirewallRule(portHTTPS, protocolTCP, FALSE) >>]

\* the rules a caller allows, and the policies it sets
AllowedRules ==
    {FirewallRule(portSSH, protocolTCP, TRUE), FirewallRule(portSSH, protocolUDP, FALSE),
     FirewallRule(8080, protocolTCP, FALSE)}

Policies == {"deny", "allow"}

\* the FirewallBuilders the caller may hold
Builders == 1..MaxBuilders

Live(fb) == ~fwb.built /\ fb <= Len(fwb.configs)

\* hb.Firewall(): a new FirewallConfig and a FirewallBuilder pointing to it
Firewall ==
    /\ ~fwb.built
    /\ Len(fwb.configs) < MaxBuilders
    /\ fwb' = [fwb EXCEPT !.configs = Append(@, DefaultFirewallConfig)]
    /\ FwbOthers

\* fb.Allow(port, protocol)[.RateLimit()].Done(): the rule is appended
Allow(fb, port, protocol, rateLimit) ==
    /\ Live(fb)
    /\ Len(fwb.configs[fb].Rules) < MaxRules
    /\ fwb' = [fwb EXCEPT !.configs[fb].Rules =
                              Append(@, FirewallRule(port, protocol, rateLimit))]
    /\ FwbOthers

ClearDefaultRules(fb) ==
    /\ Live(fb)
    /\ fwb' = [fwb EXCEPT !.configs[fb].Rules = <<>>]
    /\ FwbOthers

DefaultIncoming(fb, policy) ==
    /\ Live(fb)
    /\ fwb' = [fwb EXCEPT !.configs[fb].DefaultIncoming = policy]
    /\ FwbOthers

DefaultOutgoing(fb, policy) ==
    /\ Live(fb)
    /\ fwb' = [fwb EXCEPT !.configs[fb].DefaultOutgoing = policy]
    /\ FwbOthers

HasSSH(rules) ==
    \E i \in 1..Len(rules) : rules[i].Port = portSSH /\ rules[i].Protocol = protocolTCP

\* the safety check of Done: the SSH rule is put in front when it is missing
WithSSH(rules) ==
    IF HasSSH(rules) THEN rules ELSE <<FirewallRule(portSSH, protocolTCP, TRUE)>> \o rules

\* fb.Done(): fb.host.firewallConfig = fb.config, the pointer, not a copy
FirewallDone(fb) ==
    /\ Live(fb)
    /\ fwb' = [fwb EXCEPT !.configs[fb].Rules = WithSSH(@), !.host = fb]
    /\ FwbOthers

\* hb.Build(): the Host gets the pointer the HostBuilder holds
Build ==
    /\ ~fwb.built
    /\ fwb' = [fwb EXCEPT !.built = TRUE, !.hostConfig = fwb.host]
    /\ FwbOthers

NextFirewallBuilder ==
    \/ Firewall
    \/ \E fb \in Builders, r \in AllowedRules : Allow(fb, r.Port, r.Protocol, r.RateLimit)
    \/ \E fb \in Builders : ClearDefaultRules(fb)
    \/ \E fb \in Builders, policy \in Policies : DefaultIncoming(fb, policy)
    \/ \E fb \in Builders, policy \in Policies : DefaultOutgoing(fb, policy)
    \/ \E fb \in Builders : FirewallDone(fb)
    \/ Build

SpecFirewallBuilder == InitPool /\ [][NextFirewallBuilder]_vars

(***************************************************************************)
(* executor.deployHostDockerDaemon, command by command.  dmn.file is what  *)
(* /etc/docker/daemon.json holds on the host that hardens Docker; the      *)
(* timeout of the readiness wait is counted in check intervals.            *)
(***************************************************************************)
\* the contents the daemon configuration of a host may have: none, the
\* secure defaults, another configuration, or text json.Unmarshal rejects
DaemonFiles == {"missing", "secure", "other", "garbled"}

\* the host is one whose daemon.json is `file`
DaemonConfigOnHost(file) ==
    /\ pc = StartPc
    /\ dmn.file = "unknown"
    /\ dmn' = [dmn EXCEPT !.file = file]
    /\ DmnOthers

\* docker.DaemonConfigExists returned
DaemonConfigExistsDone(ok) ==
    /\ Awaiting({"daemon"}, "cfgexists")
    /\ Reply(ok)
    /\ IF ~ok THEN Abort
       ELSE IF dmn.file = "missing" THEN Step("mkdir") ELSE Step("cfgread")
    /\ UNCHANGED dmn
    /\ DmnRace

\* docker.GetDaemonConfig returned: an unreadable or unparsable file is
\* overwritten, an equal one ends the handler
GetDaemonConfigDone(ok) ==
    /\ Awaiting({"daemon"}, "cfgread")
    /\ Reply(ok)
    /\ IF ok /\ dmn.file = "secure" THEN Proceed ELSE Step("mkdir")
    /\ UNCHANGED dmn
    /\ DmnRace

\* the commands of docker.WriteDaemonConfig, in their order
WriteSteps == <<"mkdir", "upload", "move">>

\* WriteDaemonConfig: mkdir -p, the upload of the temp file, then mv, which
\* puts the secure defaults in place; the first failure is returned
WriteDaemonConfigDone(ok) ==
    /\ InPhase /\ pc.ph = "daemon" /\ pc.w = "wait"
    /\ \E k \in 1..Len(WriteSteps) :
          /\ pc.st = WriteSteps[k]
          /\ Reply(ok)
          /\ IF ~ok THEN Abort /\ UNCHANGED dmn
             ELSE IF k < Len(WriteSteps) THEN Step(WriteSteps[k + 1]) /\ UNCHANGED dmn
             ELSE /\ Step("restart")
                  /\ dmn' = [dmn EXCEPT !.file = "secure", !.written = TRUE]
    /\ DmnRace

RestartedNoWait == Proceed

\* after the restart the handler waits for the daemon
Restarted == Step("probe")

\* docker.RestartDockerDaemon returned; on success WaitForDockerReady
\* starts: deadline := time.Now().Add(dockerReadyTimeout)
RestartDockerDaemonDone(ok) ==
    /\ Awaiting({"daemon"}, "restart")
    /\ Reply(ok)
    /\ IF ok
       THEN /\ Restarted
            /\ dmn' = [dmn EXCEPT !.restarted = TRUE, !.deadline = dmn.now + MaxTimeout]
       ELSE /\ Abort
            /\ UNCHANGED dmn
    /\ DmnRace

\* a `docker info` of WaitForDockerReady returned after d, with an error as
\* long as the daemon does not answer; after a failure before the deadline
\* the loop sleeps one interval (or longer) and probes again
DaemonProbeDone(err, d, late) ==
    /\ Awaiting({"daemon"}, "probe")
    /\ inflight' = AfterExecute(inflight, Op)
    /\ UNCHANGED faults
    /\ LET now == dmn.now + d
           next == AfterProbe(err, now, dmn.deadline)
       IN  IF next = "nil"
           THEN /\ Proceed
                /\ dmn' = [dmn EXCEPT !.now = now, !.probed = TRUE, !.ret = "nil"]
           ELSE IF next = "sleep"
           THEN /\ Step("probe")
                /\ dmn' = [dmn EXCEPT !.now = now + 1 + late]
           ELSE /\ Abort
                /\ dmn' = [dmn EXCEPT !.now = now, !.ret = next]
    /\ DmnRace

NextDaemon ==
    \/ Next
    \/ \E file \in DaemonFiles : DaemonConfigOnHost(file)
    \/ \E ok \in Outcomes : DaemonConfigExistsDone(ok)
    \/ \E ok \in Outcomes : GetDaemonConfigDone(ok)
    \/ \E ok \in Outcomes : WriteDaemonConfigDone(ok)
    \/ \E ok \in Outcomes : RestartDockerDaemonDone(ok)
    \/ \E err \in BOOLEAN, d \in 0..MaxProbeTime, late \in 0..1 : DaemonProbeDone(err, d, late)

\* hosts that hold an earlier version of every resource of the plan
InitDaemon ==
    /\ InitPlan
    /\ rRes = [k \in ResourcePhases |->
                  [n \in ResNames(k) |-> PresentRes(OldHash(ResNamed(k, n)))]]
    /\ rCtr = [n \in ContainerNames |->
                  RunningCtr(OldHash(ContainerNamed(n)), SettledHealth(ContainerNamed(n)))]

SpecDaemon == InitDaemon /\ [][NextDaemon]_vars

(***************************************************************************)
(* client.connect step by step, with the socket getSSHAgentAuth opens to   *)
(* the SSH agent.  A socket stays open until Close is called on it: one    *)
(* held only by a client object nobody refers to any more is never closed. *)
(***************************************************************************)
NewClient(endpoint) ==
    [endpoint |-> endpoint, sshClient |-> FALSE, sftpClient |-> FALSE, agentConn |-> 0]

\* the steps of client.connect that can fail, in their order
ConnectSteps == <<"resolveConfig", "getSSHAgentAuth", "loadHostKeyCallback", "ssh.Dial", "sftp.NewClient">>

NextConnectStep(st) ==
    ConnectSteps[1 + CHOOSE k \in 1..Len(ConnectSteps) : ConnectSteps[k] = st]

\* the client object the current call works on
CurClient == Len(agt.objs)

\* Pool.GetClient(endpoint) for an endpoint: a pooled client is returned, or
\* a new client is made and connects
PoolGetClient(endpoint) ==
    /\ agt.pc = "idle"
    /\ IF agt.clients[endpoint] # 0
       THEN agt' = [agt EXCEPT !.ret = "nil", !.last = "GetClient"]
       ELSE /\ Len(agt.objs) < MaxClients
            /\ agt' = [agt EXCEPT !.objs = Append(@, NewClient(endpoint)),
                                  !.pc = ConnectSteps[1], !.ret = "none"]
    /\ AgtOthers

\* connect returned an error: GetClient returns it and drops the client
ConnectFailed(a) == [a EXCEPT !.pc = "idle", !.ret = "error", !.last = "GetClient"]

\* client.connect, one step: resolveConfig, getSSHAgentAuth (net.Dial to
\* the agent socket, kept in c.agentConn), loadHostKeyCallback, ssh.Dial,
\* sftp.NewClient; then the pool stores the client
ConnectStepDone(ok) ==
    /\ agt.pc \notin {"idle"}
    /\ LET c == CurClient
           st == agt.pc
       IN  agt' =
             IF st = "getSSHAgentAuth" /\ ok
             THEN [agt EXCEPT !.opened = @ + 1, !.sockets = @ \cup {agt.opened + 1},
                              !.objs[c].agentConn = agt.opened + 1,
                              !.pc = NextConnectStep(st)]
             ELSE IF st = "ssh.Dial" /\ ok
             THEN [agt EXCEPT !.objs[c].sshClient = TRUE, !.pc = NextConnectStep(st)]
             ELSE IF st = "sftp.NewClient" /\ ok
             THEN [agt EXCEPT !.objs[c].sftpClient = TRUE,
                              !.clients[agt.objs[c].endpoint] = c,
                              !.pc = "idle", !.ret = "nil", !.last = "GetClient"]
             ELSE IF st = "sftp.NewClient"
             THEN ConnectFailed([agt EXCEPT !.objs[c].sshClient = FALSE])
             ELSE IF ok
             THEN [agt EXCEPT !.pc = NextConnectStep(st)]
             ELSE ConnectFailed(agt)
    /\ AgtOthers

\* client.close: the agent socket is closed with the SSH connection
ClientClose(c) ==
    IF ~c.sshClient THEN [c EXCEPT !.sftpClient = FALSE]
    ELSE [c EXCEPT !.sftpClient = FALSE, !.sshClient = FALSE, !.agentConn = 0]

\* the sockets Close is called on when client.close takes c to d
ClosedSockets(c, d) == IF d.agentConn = 0 THEN {c.agentConn} \ {0} ELSE {}

\* Pool.CloseAll: close on every pooled client, then an empty map
AgentCloseAll ==
    /\ agt.pc = "idle"
    /\ LET pooled == {agt.clients[e] : e \in HostSet} \ {0}
           after == [i \in 1..Len(agt.objs) |->
                        IF i \in pooled THEN ClientClose(agt.objs[i]) ELSE agt.objs[i]]
       IN  agt' = [agt EXCEPT !.objs = after,
                              !.sockets = @ \ UNION {ClosedSockets(agt.objs[i], after[i]) :
                                                        i \in 1..Len(agt.objs)},
                              !.clients = [e \in HostSet |-> 0],
                              !.ret = "nil", !.last = "CloseAll"]
    /\ AgtOthers

NextAgent ==
    \/ \E e \in HostSet : PoolGetClient(e)
    \/ \E ok \in BOOLEAN : ConnectStepDone(ok)
    \/ AgentCloseAll

SpecAgent == InitPool /\ [][NextAgent]_vars

(***************************************************************************)
(* Hosts that already hold networks, volumes and containers with the       *)
(* names the plan declares, some of them not created by the plan.          *)
(***************************************************************************)
OtherPlan == "other"

\* a resource created by hand: no tracking label, so reading the
\* hadron.config.sha label yields the empty string
Unlabelled == [present |-> TRUE, sha |-> <<>>, plan |-> ""]

\* a resource created by another plan
OfOtherPlan(r) == [present |-> TRUE, sha |-> <<r.name, OtherPlan>>, plan |-> OtherPlan]

ForeignResStates(r) == {PresentRes(OldHash(r)), Unlabelled, OfOtherPlan(r)}

ForeignCtrStates(c) ==
    {RunningCtr(OldHash(c), SettledHealth(c)),
     [RunningCtr(<<>>, SettledHealth(c)) EXCEPT !.plan = ""],
     [RunningCtr(<<c.name, OtherPlan>>, SettledHealth(c)) EXCEPT !.plan = OtherPlan]}

ForeignResInit(k) ==
    {f \in [ResNames(k) -> UNION {ForeignResStates(ResNamed(k, n)) : n \in ResNames(k)}] :
        \A n \in ResNames(k) : f[n] \in ForeignResStates(ResNamed(k, n))}

ForeignCtrInit ==
    {f \in [ContainerNames -> UNION {ForeignCtrStates(ContainerNamed(n)) : n \in ContainerNames}] :
        \A n \in ContainerNames : f[n] \in ForeignCtrStates(ContainerNamed(n))}

InitForeign ==
    /\ InitOn({DependsOnBuilt}, {TmpfsNone},
              ForeignResInit("networks"), ForeignResInit("volumes"), ForeignCtrInit)
    /\ fresh = [h \in HostSet |-> TRUE]

SpecForeign == InitForeign /\ [][Next]_vars

(***************************************************************************)
(* executor.deployHostFirewall on one host: ufw is installed, its defaults *)
(* are set, the rules are synchronised with the host's FirewallConfig and  *)
(* the firewall is enabled.  One client.Execute per step.                  *)
(***************************************************************************)
\* the (port, protocol) pairs of the rules considered, in the order of
\* `ufw status numbered`
RuleKeys == << <<portSSH, protocolTCP>>, <<portHTTP, protocolTCP>> >>

RuleKeySet == {RuleKeys[i] : i \in 1..Len(RuleKeys)}

\* what ufw holds for a pair: no rule, an ALLOW IN rule or a LIMIT IN rule
UfwActions == {"none", "ALLOW", "LIMIT"}

\* FindRule found nothing (a nil *Rule)
NoRule == FirewallRule(0, "", FALSE)

\* GetRules: one Rule per `ALLOW IN` or `LIMIT IN` line of `ufw status
\* numbered`, RateLimit set for LIMIT
GetRules(rules) ==
    LET line(i) == FirewallRule(RuleKeys[i][1], RuleKeys[i][2], rules[RuleKeys[i]] = "LIMIT")
        Lines[i \in 0..Len(RuleKeys)] ==
            IF i = 0 THEN <<>>
            ELSE IF rules[RuleKeys[i]] = "none" THEN Lines[i - 1]
            ELSE Append(Lines[i - 1], line(i))
    IN  Lines[Len(RuleKeys)]

\* FindRule: the first rule of the slice with the port and protocol
FindRule(rules, port, protocol) ==
    LET hits == {i \in 1..Len(rules) : rules[i].Port = port /\ rules[i].Protocol = protocol}
    IN  IF hits = {} THEN NoRule ELSE rules[CHOOSE i \in hits : \A j \in hits : i <= j]

\* RulesEqual: port, protocol and rate limit (the comment is ignored)
RulesEqual(r1, r2) ==
    r1.Port = r2.Port /\ r1.Protocol = r2.Protocol /\ r1.RateLimit = r2.RateLimit

\* AddRule: `ufw limit port/proto` or `ufw allow port/proto`; ufw updates
\* a rule that differs from the new one in its action only
AddRule(rules, rule) ==
    [rules EXCEPT ![<<rule.Port, rule.Protocol>>] = IF rule.RateLimit THEN "LIMIT" ELSE "ALLOW"]

\* RemoveRule: `ufw delete allow port/proto` deletes the ALLOW rule; with a
\* LIMIT rule in its place ufw reports "Could not delete non-existent rule"
\* and changes nothing
RemoveRule(rules, port, protocol) ==
    IF rules[<<port, protocol>>] = "ALLOW"
    THEN [rules EXCEPT ![<<port, protocol>>] = "none"] ELSE rules

\* the rules a host may hold for the pairs, and the rule lists a
\* FirewallConfig may hold
HostRules == [RuleKeySet -> UfwActions]

ConfigRules == {GetRules(f) : f \in HostRules}

\* a host on which ufw was never installed, or one with ufw in any state
UfwHosts ==
    {[installed |-> FALSE, enabled |-> FALSE, incoming |-> "allow", outgoing |-> "allow",
      rules |-> [k \in RuleKeySet |-> "none"]]}
    \cup [installed : {TRUE}, enabled : BOOLEAN, incoming : Policies, outgoing : {"allow"},
          rules : HostRules]

UfwReturn(u, ret) == [u EXCEPT !.pc = "returned", !.ret = ret]

\* deployHostFirewall(host) starts, for a host with an enabled
\* FirewallConfig holding the default policies and the given rules
DeployHostFirewall(rules, host) ==
    /\ ufw.pc = "idle"
    /\ ufw' = [ufw EXCEPT !.pc = "isinstalled", !.host = host, !.host0 = host,
                          !.config = [DefaultFirewallConfig EXCEPT !.Rules = rules]]
    /\ UfwOthers

\* firewall.IsInstalled: `which ufw`; any error is the answer "not installed"
UfwIsInstalledDone(ok) ==
    /\ ufw.pc = "isinstalled"
    /\ ufw' = [ufw EXCEPT !.pc = IF ok /\ ufw.host.installed THEN "getdefaults" ELSE "install"]
    /\ UfwOthers

\* firewall.Install (debian.EnsureInstalled "ufw")
UfwInstallDone(ok) ==
    /\ ufw.pc = "install"
    /\ ufw' = IF ok THEN [ufw EXCEPT !.pc = "getdefaults", !.host.installed = TRUE]
              ELSE UfwReturn(ufw, "error")
    /\ UfwOthers

\* firewall.GetDefaults; an error is logged and the defaults are set
GetDefaultsDone(ok) ==
    /\ ufw.pc = "getdefaults"
    /\ LET currentIncoming == IF ok THEN ufw.host.incoming ELSE ""
           currentOutgoing == IF ok THEN ufw.host.outgoing ELSE ""
       IN  ufw' = [ufw EXCEPT !.pc = IF \/ currentIncoming # ufw.config.DefaultIncoming
                                        \/ currentOutgoing # ufw.config.DefaultOutgoing
                                     THEN "setincoming" ELSE "getrules"]
    /\ UfwOthers

\* firewall.SetDefaults: `ufw default <policy> incoming`, then `... outgoing`
SetDefaultsDone(ok) ==
    /\ ufw.pc \in {"setincoming", "setoutgoing"}
    /\ ufw' = IF ~ok THEN UfwReturn(ufw, "error")
              ELSE IF ufw.pc = "setincoming"
              THEN [ufw EXCEPT !.pc = "setoutgoing", !.host.incoming = ufw.config.DefaultIncoming]
              ELSE [ufw EXCEPT !.pc = "getrules", !.host.outgoing = ufw.config.DefaultOutgoing]
    /\ UfwOthers

\* firewall.GetRules: currentRules is what the host holds now
GetRulesDone(ok) ==
    /\ ufw.pc = "getrules"
    /\ ufw' = IF ok THEN [ufw EXCEPT !.pc = "sync", !.i = 1, !.current = GetRules(ufw.host.rules)]
              ELSE UfwReturn(ufw, "error")
    /\ UfwOthers

\* syncFirewallRules: the switch for the next desired rule, and the end of
\* the loop
SyncFirewallRules ==
    /\ ufw.pc = "sync"
    /\ ufw' = IF ufw.i > Len(ufw.config.Rules) THEN [ufw EXCEPT !.pc = "prune", !.i = 1]
              ELSE LET desired == ufw.config.Rules[ufw.i]
                       existing == FindRule(ufw.current, desired.Port, desired.Protocol)
                   IN  IF existing = NoRule THEN [ufw EXCEPT !.pc = "add"]
                       ELSE IF ~RulesEqual(existing, desired) THEN [ufw EXCEPT !.pc = "removeold"]
                       ELSE [ufw EXCEPT !.i = @ + 1]
    /\ UfwOthers

\* "Firewall rule changed, recreating": firewall.RemoveRule of the old rule
RemoveOldDone(ok) ==
    /\ ufw.pc = "removeold"
    /\ LET desired == ufw.config.Rules[ufw.i]
       IN  ufw' = IF ok
                  THEN [ufw EXCEPT !.pc = "add",
                                   !.host.rules = RemoveRule(@, desired.Port, desired.Protocol)]
                  ELSE UfwReturn(ufw, "error")
    /\ UfwOthers

\* firewall.AddRule of the desired rule
AddRuleDone(ok) ==
    /\ ufw.pc = "add"
    /\ ufw' = IF ok
              THEN [ufw EXCEPT !.pc = "sync", !.i = @ + 1,
                               !.host.rules = AddRule(@, ufw.config.Rules[ufw.i])]
              ELSE UfwReturn(ufw, "error")
    /\ UfwOthers

\* "Remove rules not in desired configuration": the test for the next
\* current rule, and the end of the loop
RemoveUnwanted ==
    /\ ufw.pc = "prune"
    /\ ufw' = IF ufw.i > Len(ufw.current) THEN [ufw EXCEPT !.pc = "isenabled"]
              ELSE LET current == ufw.current[ufw.i]
                   IN  IF FindRule(ufw.config.Rules, current.Port, current.Protocol) = NoRule
                       THEN [ufw EXCEPT !.pc = "removeunwanted"]
                       ELSE [ufw EXCEPT !.i = @ + 1]
    /\ UfwOthers

\* firewall.RemoveRule of a rule that is not desired
RemoveUnwantedDone(ok) ==
    /\ ufw.pc = "removeunwanted"
    /\ LET current == ufw.current[ufw.i]
       IN  ufw' = IF ok
                  THEN [ufw EXCEPT !.pc = "prune", !.i = @ + 1,
                                   !.host.rules = RemoveRule(@, current.Port, current.Protocol)]
                  ELSE UfwReturn(ufw, "error")
    /\ UfwOthers

\* firewall.IsEnabled: `ufw status` contains "Status: active"
IsEnabledDone(ok) ==
    /\ ufw.pc = "isenabled"
    /\ ufw' = IF ~ok THEN UfwReturn(ufw, "error")
              ELSE IF ufw.host.enabled THEN UfwReturn(ufw, "nil")
              ELSE [ufw EXCEPT !.pc = "enable"]
    /\ UfwOthers

\* firewall.Enable: `ufw --force enable`
EnableDone(ok) ==
    /\ ufw.pc = "enable"
    /\ ufw' = IF ok THEN UfwReturn([ufw EXCEPT !.host.enabled = TRUE], "nil")
              ELSE UfwReturn(ufw, "error")
    /\ UfwOthers

NextFirewall ==
    \/ \E rules \in ConfigRules, host \in UfwHosts : DeployHostFirewall(rules, host)
    \/ \E ok \in BOOLEAN : UfwIsInstalledDone(ok)
    \/ \E ok \in BOOLEAN : UfwInstallDone(ok)
    \/ \E ok \in BOOLEAN : GetDefaultsDone(ok)
    \/ \E ok \in BOOLEAN : SetDefaultsDone(ok)
    \/ \E ok \in BOOLEAN : GetRulesDone(ok)
    \/ SyncFirewallRules
    \/ \E ok \in BOOLEAN : RemoveOldDone(ok)
    \/ \E ok \in BOOLEAN : AddRuleDone(ok)
    \/ RemoveUnwanted
    \/ \E ok \in BOOLEAN : RemoveUnwantedDone(ok)
    \/ \E ok \in BOOLEAN : IsEnabledDone(ok)
    \/ \E ok \in BOOLEAN : EnableDone(ok)

SpecFirewall == InitPool /\ [][NextFirewall]_vars

(***************************************************************************)
(* Properties.                                                             *)
(***************************************************************************)
Done == pc = DonePc

\* create and remove commands for networks, volumes and containers
CreateRemove == {m \in mutations : m[3] \in {"create", "remove", "run"}}

\* C1: a container that was running when the run started has an instance on
\* its host in every state of the run: the old instance is removed only
\* after the new one was started.
C1_ZeroDowntime ==
    \A n \in ContainerNames : (rCtr0[n].present /\ rCtr0[n].running) => rCtr[n].present

\* the declared update of n replaces a healthy running old version
StaleHealthy0(n) == rCtr0[n] = RunningCtr(OldHash(ContainerNamed(n)), "healthy")

\* the new version of n is up and healthy
NewHealthy(n) ==
    /\ rCtr[n].present
    /\ rCtr[n].sha = ContainerConfigHash(ContainerNamed(n))
    /\ rCtr[n].health = "healthy"

\* C2: when the run completes and the new version of a healthy, running,
\* stale container did not turn healthy, the old version is still running,
\* the new one is gone and the run reports failure.
C2_Rollback ==
    \A n \in ContainerNames :
        (Done /\ StaleHealthy0(n) /\ ~NewHealthy(n) /\ rCtr[n].health # "starting")
            => (rCtr[n] = rCtr0[n] /\ result = "error")

\* C3: a second run after a successful one, against the same plan and the
\* remote state the first one left, issues no create and no remove command
\* (stated for the runs in which every tracking-label read succeeds: after
\* a failed read the reconciler recreates the resource by design).
C3_IdempotentIfLabelsRead == (run >= 2 /\ ~labelReadFailed) => CreateRemove = {}

\* C4: with the edges the builder produced, no container's `docker run` is
\* issued while a dependency on the same host is not yet present, running
\* and healthy per its HealthCheck.
C4_DependencyOrder ==
    dependsOn = DependsOnBuilt =>
        \A v \in depViol : ContainerNamed(v[1]).host # ContainerNamed(v[2]).host

DepStep(S) == S \cup UNION {dependsOn[x] : x \in S}

RECURSIVE DepClosure(_, _)
DepClosure(S, k) == IF k = 0 THEN S ELSE DepClosure(DepStep(S), k - 1)

\* some container reaches itself along DependsOn edges
HasCycle ==
    \E a \in ContainerNames : a \in DepClosure(dependsOn[a], Cardinality(ContainerNames))

\* C5: a plan with a DependsOn cycle gets no mutating command and its run
\* ends in an error.
C5_CycleRejected == HasCycle => (mutations = {} /\ (Done => result = "error"))

\* the phase order the specification states
StatedPhaseOrder ==
    <<"packages", "daemon", "autoupdates", "firewall", "registries",
      "networks", "volumes", "containers">>

Rank(ph) == CHOOSE i \in 1..Len(StatedPhaseOrder) : StatedPhaseOrder[i] = ph

\* C6: while a command is in flight on a host, no later phase has issued a
\* command to that host, every handler of an earlier phase for that host has
\* returned nil, and a `docker run` finds every network and volume of its
\* host present with its declared hash.
C6_PhaseOrder ==
    \A op \in inflight :
        /\ \A q \in hostPhases[op.host] : Rank(q) <= Rank(op.ph)
        /\ \A q \in HostPhases \cup ResourcePhases \cup {"containers"} :
              \A i \in 1..Len(Items(q)) :
                  (Rank(q) < Rank(op.ph) /\ HostAt(q, i) = op.host) => <<q, i>> \in completed
        /\ (op.ph = "containers" /\ op.st = "run") =>
              \A k \in ResourcePhases : \A i \in 1..Len(Items(k)) :
                  Items(k)[i].host = op.host =>
                      rRes[k][Items(k)[i].name] = PresentRes(ConfigHash(Items(k)[i]))

\* a `docker run` in flight on the host that has a network and a volume,
\* after every earlier phase issued commands to that host
C6_Witness ==
    \E op \in inflight :
        /\ op.ph = "containers" /\ op.st = "run" /\ op.host = "h1"
        /\ hostPhases["h1"] = HostPhases \cup ResourcePhases \cup {"containers"}

\* C7: when the run failed on one host, every handler of every other host
\* has still run to completion.
C7_HostIsolation ==
    (Done /\ failedHost # NoHost) =>
        \A q \in HostPhases \cup ResourcePhases \cup {"containers"} :
            \A i \in 1..Len(Items(q)) :
                HostAt(q, i) # failedHost => <<q, i>> \in completed

\* C8: per endpoint at most one connection is open, a caller that got a
\* connection holds the one stored for its endpoint, and the pool never
\* holds more entries than endpoints were requested.
C8_OneConnectionPerEndpoint ==
    /\ \A e \in HostSet : Cardinality({c \in conns : c.ep = e /\ c.open}) <= 1
    /\ \A g \in Goroutines : gret[g] > 0 => gret[g] = clients[greq[g].ep]
    /\ Cardinality({e \in HostSet : clients[e] # 0}) <= Cardinality(requested)

\* two goroutines raced for the same endpoint, both went to the write lock
\* path, and both hold the one connection
C8_Witness ==
    \E g1, g2 \in Goroutines :
        /\ g1 # g2 /\ greq[g1].ep = greq[g2].ep
        /\ gret[g1] > 0 /\ gret[g2] = gret[g1]
        /\ gcalls[g1] = 1 /\ gcalls[g2] = 1
        /\ Cardinality(conns) = 1

\* C9: at most one remote operation is in flight per host.
C9_Serialized ==
    \A h \in HostSet : Cardinality({op \in inflight : op.host = h}) <= 1

\* a command in flight on a host that already ran commands of earlier phases
C9_Witness ==
    \E op \in inflight :
        /\ op.ph = "containers"
        /\ Cardinality(hostPhases[op.host]) >= 2

\* C10: while one goroutine is inside client.connect for an endpoint, a
\* goroutine asking for another endpoint can take the lock it waits for.
C10_SlowHostDelaysOnlyItself ==
    \A g1, g2 \in Goroutines :
        (gpc[g1] = "connect" /\ greq[g2].ep # greq[g1].ep) =>
            /\ gpc[g2] = "rlock" => CanRLock
            /\ gpc[g2] = "lock" => CanLock

\* C11: after CloseAll (and until the next GetClient) the pool is empty and
\* every connection is closed; a second CloseAll in a row returns nil and
\* changes nothing; a connection the pool holds is always an open one, so a
\* GetClient after CloseAll yields a newly established connection.
C11_CloseAll ==
    /\ closeLog.n >= 1 => (Size = 0 /\ \A c \in conns : ~c.open)
    /\ closeLog.n >= 2 => (closeLog.ret = "nil" /\ ~closeLog.changed)
    /\ \A e \in HostSet :
          clients[e] # 0 => \E c \in conns : c.id = clients[e] /\ c.ep = e /\ c.open

\* two CloseAll calls in a row, after an endpoint was connected, closed and
\* connected again
C11_Witness ==
    /\ closeLog.n = 2
    /\ \E c1, c2 \in conns : c1.id # c2.id /\ c1.ep = c2.ep

\* C12: once execute has returned, with nil or with the error of any phase,
\* CloseAll has run: the pool is empty and no connection is open; and a run
\* that has its result but not yet returned is at the deferred CloseAll.
C12_GuaranteedCleanup ==
    /\ Done => (result \in {"ok", "error"} /\ Size = 0 /\ \A c \in conns : ~c.open)
    /\ (result # "running" /\ ~Done) => pc = ClosingPc

\* a run that connected to both hosts, failed in a later phase and returned
C12_Witness ==
    /\ Done /\ result = "error"
    /\ {c.ep : c \in conns} = HostSet
    /\ \E ph \in HostPhases : \E i \in 1..Len(Hosts) : <<ph, i>> \in completed

\* the handlers of deployNetworks, deployVolumes and deployContainers
Handlers ==
    UNION {{<<ph, i>> : i \in 1..Len(Items(ph))} : ph \in ResourcePhases \cup {"containers"}}

Declared(h) == Items(h[1])[h[2]]

\* the remote resource of handler h when the run started
Remote0(h) ==
    IF h[1] = "containers" THEN rCtr0[Declared(h).name] ELSE rRes0[h[1]][Declared(h).name]

\* every hash the declared configuration of h can be given
DeclaredHashes(h) ==
    IF h[1] = "containers" THEN ContainerConfigHashes(Declared(h)) ELSE {ConfigHash(Declared(h))}

\* the declared configuration of h is not what the remote state holds: the
\* remote label is no hash of it
Differs0(h) == ~Remote0(h).present \/ Remote0(h).sha \notin DeclaredHashes(h)

Changed0 == {h \in Handlers : Differs0(h)}

\* the mutating commands issued for h in this run
MutationsOf(h) == {m[3] : m \in {x \in mutations : x[1] = h[1] /\ x[2] = h[2]}}

Observed(h, what) == <<h[1], h[2], what>> \in events

\* the commands that replace (or first create) the resource of h
ReplaceSequence(h) ==
    IF h[1] = "containers"
    THEN (IF Remote0(h).present THEN {"stop", "remove"} ELSE {})
            \cup (IF Declared(h).mount # "" THEN {"upload"} ELSE {}) \cup {"run"}
    ELSE (IF Remote0(h).present THEN {"remove"} ELSE {}) \cup {"create"}

\* no mutating command of a handler is about to be issued a second time
IssuedOnce ==
    (InPhase /\ pc.w = "call" /\ MutatingStep(pc.ph, pc.st))
        => <<pc.ph, pc.i, pc.st>> \notin mutations

\* C13: when exactly one resource differs from the remote state, a
\* successful run issues exactly its replace sequence, and no mutating
\* command is issued for any other resource (stated for the resources whose
\* label read did not fail and, for a container, whose image pull fetched no
\* newer image: in those two cases the reconciler replaces by design).
C13_MinimalChangeIfReadAndNoNewImage ==
    Cardinality(Changed0) = 1 =>
        /\ \A h \in Handlers \ Changed0 :
              (~Observed(h, "labelfail") /\ ~Observed(h, "pullednew")) => MutationsOf(h) = {}
        /\ (Done /\ result = "ok") => \A h \in Changed0 : MutationsOf(h) = ReplaceSequence(h)
        /\ IssuedOnce

\* C14: a create command that was built carries hadron.config.sha = the
\* declared digest and hadron.plan = the plan name, and reading the
\* config-hash label of the created resource back yields the declared digest.
C14_LabelRoundTrip ==
    /\ lab.st # "idle" =>
          /\ Parsed(lab.kind, lab.cmd).sha = lab.hash
          /\ Parsed(lab.kind, lab.cmd).plan = lab.plan
    /\ lab.st = "read" => lab.back = lab.hash

\* the executor is inside the handler h
Current(h) == InPhase /\ pc.ph = h[1] /\ pc.i = h[2]

\* C15: a handler whose label read failed does not skip and does not fail
\* on that account: it goes on to the replace sequence, so it is at one of
\* its mutating steps, or has issued the first of them, and once it returned
\* nil it has issued exactly the remove-then-create sequence.
C15_LabelReadFailureRecreates ==
    \A h \in Handlers : Observed(h, "labelfail") =>
        /\ Remote0(h).present
        /\ ~Observed(h, "unchanged")
        /\ Current(h) => MutatingStep(pc.ph, pc.st)
        /\ ~Current(h) => (IF h[1] = "containers" THEN "stop" ELSE "remove") \in MutationsOf(h)
        /\ <<h[1], h[2]>> \in completed => MutationsOf(h) = ReplaceSequence(h)

\* a run returned nil although the label of a network that was already as
\* declared could not be read: the network was removed and created again
C15_Witness ==
    /\ Done /\ result = "ok"
    /\ Observed(<<"networks", 1>>, "labelfail")
    /\ ~Differs0(<<"networks", 1>>)
    /\ MutationsOf(<<"networks", 1>>) = {"remove", "create"}
    /\ rRes["networks"]["n1"] = PresentRes(ConfigHash(Networks[1]))

\* the check error the specification names for a kind of resource
StatedCheckError(ph) ==
    CASE ph = "networks" -> "ErrNetworkCheck"
      [] ph = "volumes" -> "ErrVolumeCheck"
      [] ph = "containers" -> "ErrContainerCheck"

\* C16: when the existence check of a resource failed, its handler returned
\* the check error of its kind, the run failed on the resource's host, and
\* no remove, create, stop, upload or run was issued for the resource.
C16_ExistsCheckFatal ==
    \A h \in Handlers : Observed(h, "existsfail") =>
        /\ Observed(h, StatedCheckError(h[1]))
        /\ MutationsOf(h) = {}
        /\ <<h[1], h[2]>> \notin completed
        /\ result = "error" /\ ~InPhase
        /\ failedHost = HostAt(h[1], h[2])

\* the existence check of container k1 failed after the networks and
\* volumes of its host had been handled
C16_Witness ==
    /\ Done /\ Observed(<<"containers", 2>>, "existsfail")
    /\ <<"networks", 1>> \in completed /\ <<"volumes", 1>> \in completed
    /\ rCtr = rCtr0

\* the handlers of deployContainers
ContainerHandlers == {h \in Handlers : h[1] = "containers"}

\* C17: a container is skipped as unchanged only if it existed, its label
\* was read and is a hash of the declared configuration, and the pull fetched no newer
\* image; a container whose pull fetched a newer image is never skipped, and
\* once its handler returned nil it has been replaced (or first started).
C17_NewImageForcesRedeploy ==
    \A h \in ContainerHandlers :
        /\ Observed(h, "unchanged") =>
              /\ Remote0(h).present /\ Remote0(h).sha \in DeclaredHashes(h)
              /\ ~Observed(h, "labelfail") /\ ~Observed(h, "pullednew")
              /\ MutationsOf(h) = {}
        /\ (Observed(h, "pullednew") /\ <<h[1], h[2]>> \in completed) =>
              /\ MutationsOf(h) = ReplaceSequence(h)
              /\ rCtr[Declared(h).name].present

\* container k0 had the declared hash, its pull fetched a newer image, and
\* it was stopped, removed and run again
C17_Witness ==
    /\ ~Differs0(<<"containers", 1>>)
    /\ Observed(<<"containers", 1>>, "pullednew")
    /\ <<"containers", 1>> \in completed
    /\ MutationsOf(<<"containers", 1>>) = {"stop", "remove", "run"}

C19_UploadPermissions ==
    \A u \in up.done : up.files[u.path].mode = PermOf(u.caller)

\* C20: all ConfigHash calls on containers with the same logical fields
\* return one and the same string of 64 hex digits, whatever the order in
\* which their networks were added and their maps are iterated.
C20_ConfigHashDeterministic ==
    /\ Cardinality(hsh.results) <= 1
    /\ \A r \in hsh.results : r.len = 64

\* C21: two containers that differ in exactly one field (image, env vars,
\* ports, added capabilities, memory limit, user, hostname, network alias,
\* health check, host) never have the same ConfigHash input.
C21_Sensitivity == ser.st = "hashed" => ser.ca # ser.cb

\* the two mounted paths hold the same bytes: two files with equal bytes, or
\* two directories with the same relative tree
SameBytes ==
    LET ea == mnt.fs0[mnt.a.mounts[1].localPath]
        eb == mnt.fs0[mnt.b.mounts[1].localPath]
    IN  /\ ea.kind = eb.kind /\ ea.kind # "none"
        /\ ea.data = eb.data /\ ea.tree = eb.tree

\* hash.Path succeeded on the entry
Hashable(e) == e.kind # "none" /\ e.readable

\* C22 as stated: two containers whose mounts hold the same bytes at different
\* local paths have the same ConfigHash input, and editing the bytes of the
\* mounted file changes it.
C22_MountsByContent ==
    /\ (mnt.st \in {"hashed", "edited", "rehashed"} /\ SameBytes) => mnt.ca = mnt.cb
    /\ mnt.st = "rehashed" => mnt.ca2 # mnt.ca

\* C22 amended: the same where hash.Path can read the mounted paths; a path
\* that cannot be hashed is hashed by its name.
C22_MountsByContentWhenHashable ==
    /\ (/\ mnt.st \in {"hashed", "edited", "rehashed"} /\ SameBytes
        /\ \A p \in LocalPaths : Hashable(mnt.fs0[p]))
          => mnt.ca = mnt.cb
    /\ (mnt.st = "rehashed" /\ Hashable(mnt.fs[mnt.edited])) => mnt.ca2 # mnt.ca

\* two readable files with the same bytes were mounted from two paths, the
\* hashes agreed, the first file was edited and its hash changed
C22_Witness ==
    /\ mnt.st = "rehashed" /\ SameBytes
    /\ \A p \in LocalPaths : Hashable(mnt.fs0[p]) /\ mnt.fs0[p].kind = "file"
    /\ mnt.ca = mnt.cb /\ mnt.ca2 # mnt.ca

\* the terminal states deployContainer observed for the health check of h
HealthVerdicts(h) == {v \in {"healthy", "unhealthy"} : Observed(h, v)}

\* C23: once the handler of a container with a HealthCheck has started the
\* container and returned, its check has left Pending for exactly one of
\* Healthy and Unhealthy.
C23_HealthCheckTerminates ==
    \A h \in ContainerHandlers :
        (Declared(h).healthCheck /\ "run" \in MutationsOf(h) /\ h \in completed)
            => Cardinality(HealthVerdicts(h)) = 1

\* the decision Execute reached for the resource of h ("none": not yet)
ExecuteDecision(h) ==
    IF Observed(h, "unchanged") THEN "skip"
    ELSE IF MutationsOf(h) \cap {"stop", "remove"} # {} THEN "replace"
    ELSE IF MutationsOf(h) \cap {"create", "run"} # {} THEN "create"
    ELSE "none"

\* C24: a DryRun on the plan and remote state issues no mutating command
\* and shows, for every resource, the decision (create / skip / replace)
\* that Execute reaches on the same plan and remote state.
C24_DryRunEquivalence ==
    dryRun.ret # "none" =>
        /\ \A c \in dryRun.commands : ~MutatingStep(c[1], c[3])
        /\ \A h \in Handlers :
              ExecuteDecision(h) # "none" => <<h, ExecuteDecision(h)>> \in dryRun.shown

\* the position of a resource in the sequence of removals (0: not removed)
RemovedAt(kind, name) ==
    IF \E i \in 1..Len(destroy.removed) : destroy.removed[i] = <<kind, name>>
    THEN CHOOSE i \in 1..Len(destroy.removed) : destroy.removed[i] = <<kind, name>>
    ELSE 0

\* C25: when Destroy has returned, every resource of the plan is gone from
\* its host, and the removals came in the order containers, volumes,
\* networks.
C25_TeardownOrder ==
    destroy.ret # "none" =>
        /\ \A n \in ContainerNames : ~rCtr[n].present
        /\ \A k \in ResourcePhases : \A n \in ResNames(k) : ~rRes[k][n].present
        /\ \A c \in ContainerNames, v \in ResNames("volumes"), n \in ResNames("networks") :
              (RemovedAt("containers", c) # 0 /\ RemovedAt("volumes", v) # 0
                    => RemovedAt("containers", c) < RemovedAt("volumes", v))
              /\ (RemovedAt("volumes", v) # 0 /\ RemovedAt("networks", n) # 0
                    => RemovedAt("volumes", v) < RemovedAt("networks", n))

\* C26: once the context is cancelled no new remote command is issued, and
\* a run that ends after the cancellation with handlers left undone ends in
\* an error.
C26_Cancellation ==
    [][/\ ctx = "cancelled" => inflight' \subseteq inflight
       /\ (ctx' = "cancelled" /\ pc' = DonePc /\ ~(Handlers \subseteq completed')) => result' = "error"]_vars

\* C27: WaitForDockerReady probes at least once; it returns nil exactly when
\* its last probe succeeded, and the not-ready error exactly at the first
\* failed probe that returned after the deadline; it goes on only after a
\* failed probe at or before the deadline, so it makes at most one probe per
\* check interval up to the deadline and one more.
C27_BoundedReadinessWait ==
    LET n == Len(wd.hist) IN
    /\ wd.ret # "none" => n >= 1
    /\ \A i \in 1..n :
          IF i < n \/ wd.st \in {"sleep", "probe"}
          THEN wd.hist[i].err /\ wd.hist[i].at <= wd.deadline
          ELSE /\ wd.ret = "nil" <=> ~wd.hist[i].err
               /\ wd.ret = "errDockerNotReady" <=> (wd.hist[i].err /\ wd.hist[i].at > wd.deadline)
    /\ wd.st = "returned" <=> wd.ret \in {"nil", "errDockerNotReady"}
    /\ n <= wd.deadline + 2

\* the daemon never answered: three failed probes, the last one after the
\* deadline, and the not-ready error
C27_Witness ==
    /\ wd.ret = "errDockerNotReady"
    /\ Len(wd.hist) = 3
    /\ wd.hist[2].at <= wd.deadline /\ wd.hist[3].at > wd.deadline

\* C28: a connection returned by GetClientWithFingerprint(e, f) with a
\* non-empty f was host-key-verified against f.
C28_FingerprintNeverSkipped ==
    \A g \in Goroutines :
        (gret[g] > 0 /\ greq[g].fp # "") =>
            \A c \in conns : c.id = gret[g] => c.fp = greq[g].fp

\* C29: package steps are idempotent. When EnsureInstalled returns for a
\* package that was installed at the call, it has issued no install command
\* and returns nil; when EnsureRemoved returns for a package that was not
\* installed, it has issued no remove command and returns nil; and an
\* EnsureInstalled that returns an error returns one that errors.Is finds to
\* be ErrPackageInstallFailed.
Issued(kind) == \E i \in 1..Len(pkg.cmds) : pkg.cmds[i].kind = kind

C29_InstalledIsKept ==
    (pkg.st = "returned" /\ pkg.op = "EnsureInstalled" /\ pkg.name \in pkg.before)
        => (~Issued("install") /\ pkg.ret.nil /\ pkg.installed = pkg.before)

C29_RemovedIsKept ==
    (pkg.st = "returned" /\ pkg.op = "EnsureRemoved" /\ pkg.name \notin pkg.before)
        => (~Issued("remove") /\ pkg.ret.nil /\ pkg.installed = pkg.before)

C29_FailureIsInstallFailed ==
    (pkg.st = "returned" /\ pkg.op = "EnsureInstalled" /\ ~pkg.ret.nil)
        => ErrorsIs(pkg.ret, ErrPackageInstallFailed)

C29_PackageStepsIdempotent ==
    C29_InstalledIsKept /\ C29_RemovedIsKept /\ C29_FailureIsInstallFailed

\* the handlers of deployNetworks and deployVolumes whose resource is
\* present on the host with a label that is not the declared hash
StaleFound ==
    {h \in Handlers : /\ h[1] \in ResourcePhases
                      /\ Remote0(h).present
                      /\ Remote0(h).sha # ConfigHash(Declared(h))}

\* C30: for a network or volume found present with a label other than the
\* declared hash, a create is issued only after the remove was issued and
\* took the old resource away (never after a failed remove), and once the
\* handler has returned nil it has issued exactly remove and create and the
\* resource is present with the declared hash: it is neither absent nor
\* still carrying the old hash.
C30_StaleTransition ==
    \A h \in StaleFound :
        LET now == rRes[h[1]][Declared(h).name]
        IN  /\ "create" \in MutationsOf(h) =>
                  /\ "remove" \in MutationsOf(h)
                  /\ now # Remote0(h)
            /\ <<h[1], h[2]>> \in completed =>
                  /\ MutationsOf(h) = {"remove", "create"}
                  /\ now = PresentRes(ConfigHash(Declared(h)))

\* a run returned nil after it read the old label of the network and of the
\* volume, removed both and created them as declared
C30_Witness ==
    /\ Done /\ result = "ok"
    /\ StaleFound = {<<"networks", 1>>, <<"volumes", 1>>}
    /\ \A h \in StaleFound :
          /\ ~Observed(h, "labelfail")
          /\ MutationsOf(h) = {"remove", "create"}
          /\ rRes[h[1]][Declared(h).name] = PresentRes(ConfigHash(Declared(h)))

\* C31: SSH is always allowed. A built Host that has a firewall
\* configuration has a rule for port 22/tcp in it, whatever FirewallBuilder
\* operations came before Build, also those after Done.
C31_SSHAlwaysAllowed ==
    (fwb.built /\ fwb.hostConfig # 0) => HasSSH(fwb.configs[fwb.hostConfig].Rules)

\* the phases after deployDockerDaemon that issued a command to host h
LaterPhases(h) == {q \in hostPhases[h] : Rank(q) > Rank("daemon")}

\* C32: once deployHostDockerDaemon has written a new daemon configuration
\* it goes on to restart the daemon and to wait for it: the handler has not
\* returned nil, and no later phase has issued a command to that host,
\* unless the restart succeeded and a `docker info` succeeded after it; and
\* when the wait ended with the not-ready error the run has failed and no
\* later phase has issued a command to the host.
C32_DaemonRestartGating ==
    /\ dmn.written =>
          /\ (<<"daemon", 1>> \in completed \/ LaterPhases("h1") # {})
                => (dmn.restarted /\ dmn.probed)
          /\ ~dmn.restarted => (Current(<<"daemon", 1>>) /\ pc.st = "restart") \/ result = "error"
          /\ (dmn.restarted /\ ~dmn.probed)
                => (Current(<<"daemon", 1>>) /\ pc.st = "probe") \/ result = "error"
    /\ dmn.ret = "errDockerNotReady" =>
          /\ result = "error" /\ failedHost = "h1"
          /\ <<"daemon", 1>> \notin completed
          /\ LaterPhases("h1") = {} /\ ~dmn.probed

\* the daemon was restarted, failed a probe, answered a later one, and a
\* container was then run on the host
C32_Witness ==
    /\ dmn.written /\ dmn.restarted /\ dmn.probed /\ dmn.now > 0
    /\ "containers" \in LaterPhases("h1")
    /\ Done /\ result = "ok"

\* C33: the agent connection is always released. After Pool.CloseAll no
\* socket to the SSH agent is open, and after a GetClient that returned an
\* error every open agent socket is the one of a pooled client (none is
\* left from the failed connect).
C33_AgentConnectionReleased ==
    /\ (agt.pc = "idle" /\ agt.last = "CloseAll") => agt.sockets = {}
    /\ (agt.pc = "idle" /\ agt.last = "GetClient" /\ agt.ret = "error") =>
          \A s \in agt.sockets :
              \E e \in HostSet : agt.clients[e] # 0 /\ agt.objs[agt.clients[e]].agentConn = s

\* C34: the pool's map holds only clients whose connect succeeded and that
\* were not closed; a GetClient whose connect fails returns the error and
\* leaves the map and its size as they were, with no entry for the endpoint;
\* and a GetClient that finds no entry for its endpoint under the write lock
\* goes on to a new connect.
C34_PoolInvariant ==
    [][/\ \A e \in HostSet :
             clients'[e] # 0 => \E c \in conns' : c.id = clients'[e] /\ c.ep = e /\ c.open
       /\ \A g \in Goroutines :
             /\ (gpc[g] = "connect" /\ gret'[g] = -1) =>
                   /\ clients' = clients /\ conns' = conns
                   /\ clients'[greq[g].ep] = 0
                   /\ gpc'[g] = "idle"
             /\ (gpc[g] = "dcheck" /\ gpc'[g] # "dcheck" /\ clients[greq[g].ep] = 0)
                   => gpc'[g] = "connect"
             /\ (gpc[g] = "connect" /\ gret'[g] > 0)
                   => clients'[greq[g].ep] = gret'[g]]_vars

\* before any CloseAll, one goroutine's connect to an endpoint failed and
\* another goroutine then connected to the same endpoint
C34_Witness ==
    \E g1, g2 \in Goroutines :
        /\ gpc[g1] = "idle" /\ gret[g1] = -1
        /\ greq[g2].ep = greq[g1].ep /\ gret[g2] > 0 /\ gret[g2] = clients[greq[g2].ep]
        /\ closeLog.total = 0 /\ Size = 1

\* the resource the handler at (ph, i) works on carried the hadron.plan label
\* of the executing plan when the run started
OwnedAtStart(ph, i) ==
    IF ph = "containers" THEN rCtr0[Items(ph)[i].name].plan = PlanName
    ELSE rRes0[ph][Items(ph)[i].name].plan = PlanName

\* C35: the reconciler removes only what it owns. A remove, stop or
\* force-remove command is issued for a remote network, volume or container
\* only if the resource carries the hadron.plan label of the executing plan.
C35_RemovesOnlyOwned ==
    \A m \in mutations :
        m[3] \in {"stop", "remove"} => OwnedAtStart(m[1], m[2])

\* C36: content-address integrity. After any sequence of uploads, failed
\* ones included, every path /var/lib/hadron/files/<h> that a later upload
\* would find existing holds exactly the content whose hash is h.
C36_ContentAddressIntegrity ==
    \A d \in Contents :
        (up.st = "idle" /\ FileExists(up.files, RemotePath(d)))
            => up.files[RemotePath(d)].content = d

\* what the FirewallConfig asks for a (port, protocol) pair
DesiredAction(k) ==
    LET desired == FindRule(ufw.config.Rules, k[1], k[2])
    IN  IF desired = NoRule THEN "none" ELSE IF desired.RateLimit THEN "LIMIT" ELSE "ALLOW"

\* C37: firewall convergence. When deployHostFirewall returns nil, the
\* host's rules, compared by (port, protocol, rate-limit), are the desired
\* rules: every desired rule is present with its rate-limit flag and every
\* rule that is not desired is gone, for ALLOW and for LIMIT rules.
C37_FirewallConvergence ==
    (ufw.pc = "returned" /\ ufw.ret = "nil") =>
        \A k \in RuleKeySet : ufw.host.rules[k] = DesiredAction(k)

\* C38: no gap for kept rules. A desired (port, protocol) that had a rule
\* on the host before the sync has a rule on the host in every state
\* during the sync and when it returns, with or without an error.
C38_NoGapForKeptRules ==
    ufw.pc # "idle" =>
        \A k \in RuleKeySet :
            (DesiredAction(k) # "none" /\ ufw.host0.rules[k] # "none")
                => ufw.host.rules[k] # "none"

\* C39: EnsureRemoved and EnsureInstalled tell the truth. EnsureRemoved
\* returns nil only if the package is not installed on the host when it
\* returns, and EnsureInstalled returns nil only if it is installed; a
\* failed installed-check is never reported as success with the package in
\* the wrong state.
C39_EnsureTellsTruth ==
    (pkg.st = "returned" /\ pkg.ret = NilError) =>
        /\ pkg.op = "EnsureRemoved" => pkg.name \notin pkg.installed
        /\ pkg.op = "EnsureInstalled" => pkg.name \in pkg.installed

====
